---- MODULE Spec2Model ----
(***************************************************************************)
(* SpiderX: the multi-source URL discovery pipeline.                       *)
(*                                                                         *)
(*   CrawlSpec / CrawlFairSpec  one run of CrawlerSource.fetch_urls        *)
(*                              (spiderx/sources/crawler.py)               *)
(*   ManagerSpec                SourceManager.fetch_from_all_sources       *)
(*                              (spiderx/sources/manager.py)               *)
(*   PipelineSpec               SpiderXCLI.run / _process_domain           *)
(*                              (spiderx/cli_core.py)                      *)
(*                                                                         *)
(* Coroutines are asyncio tasks: a step of the model is the code a task    *)
(* runs between two suspension points (await of a network operation or of  *)
(* asyncio.gather); tasks interleave only at those points.                 *)
(***************************************************************************)
EXTENDS Integers, Sequences, FiniteSets, Bags, TLC

VARIABLES
    args,         \* the argparse namespace the sources are built from
    tasks,        \* crawler: every _crawl_recursive coroutine created in the run
    visited_urls, \* crawler: self.visited_urls
    discovered_urls, \* crawler: self.discovered_urls
    requested,    \* crawler: bag of the URLs handed to session.get
    mainpc,       \* crawler: position of fetch_urls
    seedIdx,      \* crawler: index of the start_url the loop is at
    crawlResult,  \* crawler: the value fetch_urls returns
    crawl_domain, \* crawler: the domain argument of fetch_urls
    fetchOutcome, \* manager: what each source's fetch_urls does when awaited
    srcTasks,     \* manager: the tasks made by asyncio.create_task, per source
    mgrPc,        \* manager: position of fetch_from_all_sources
    mgrIdx,       \* manager: index of the task the second loop is at
    mgrResults,   \* manager: the results dict
    pipePc,       \* pipeline: position of SpiderXCLI.run
    domains,      \* pipeline: the list _get_target_domains returned
    domIdx,       \* pipeline: index of the domain the loop of run is at
    srcIdx,       \* pipeline: index of the source _process_domain is at
    domain_urls,  \* pipeline: the list _process_domain accumulates
    total_urls,   \* pipeline: the list run accumulates
    results,      \* pipeline: self.results
    discovered_sitemaps, \* pipeline: SitemapSource.discovered_sitemaps
    callLog,      \* pipeline: how each call of fetch_from_source went
    scan_request, \* scan core: the ScanRequest of scan_domains
    scan_result,  \* scan core: the ScanResult of the scan
    scanPc,       \* scan core: position of _perform_scan
    scanIdx,      \* scan core: index of the domain the loop is at
    scan_all_urls, \* scan core: the list all_urls of _perform_scan
    test_url,     \* filter: the URL handed to the ParameterFilter
    test_params,  \* filter: what extract_parameters returned
    test_filtered, \* filter: what filter_parameters returned
    test_cleaned, \* filter: what create_cleaned_url returned
    test_placeholder, \* filter: the placeholder handed to create_cleaned_url
    test_again,   \* filter: the result of the three steps on test_cleaned
    testPc,       \* filter: position of the extract, filter, clean sequence
    smart_params, \* scoring filter: the params argument
    smart_threshold, \* scoring filter: the threshold argument, in hundredths
    smart_todo,   \* scoring filter: the elements the loop has yet to visit
    smart_filtered, \* scoring filter: filtered_params
    filtering_stats, \* scoring filter: filtering_stats
    smart_scores, \* scoring filter: boring_score and interesting_score per name
    smartPc,      \* scoring filter: position of smart_filter_parameters
    site_responses, \* sitemap source: how the server answers each request
    site_calls    \* sitemap source: what each call of fetch_urls returned

crawlVars == <<args, tasks, visited_urls, discovered_urls, requested, mainpc,
               seedIdx, crawlResult, crawl_domain>>

mgrVars == <<fetchOutcome, srcTasks, mgrPc, mgrIdx, mgrResults>>

pipeVars == <<pipePc, domains, domIdx, srcIdx, domain_urls, total_urls, results,
              discovered_sitemaps, callLog>>

scanVars == <<scan_request, scan_result, scanPc, scanIdx, scan_all_urls>>

testVars == <<test_url, test_params, test_filtered, test_cleaned,
              test_placeholder, test_again, testPc>>

smartVars == <<smart_params, smart_threshold, smart_todo, smart_filtered,
               filtering_stats, smart_scores, smartPc>>

siteVars == <<site_responses, site_calls>>

libVars == <<scanVars, testVars, smartVars, siteVars>>

vars == <<crawlVars, mgrVars, pipeVars, libVars>>

----------------------------------------------------------------------------
(* Bounds of the model *)

MaxDepthBound == 2
MaxPagesBound == 3

----------------------------------------------------------------------------
(* Strings are sequences of tokens (substrings); concatenating the tokens   *)
(* gives the Python string, so == , endswith and slicing keep their meaning *)

EndsWith(s, suffix) ==
    /\ Len(s) >= Len(suffix)
    /\ SubSeq(s, Len(s) - Len(suffix) + 1, Len(s)) = suffix

Take(s, n) == SubSeq(s, 1, IF Len(s) < n THEN Len(s) ELSE n)

\* the tokens with upper-case letters, and their lower-case forms
UpperTokens == (".JS" :> ".js") @@ (".PNG" :> ".png") @@ ("HTTPS://" :> "https://")
               @@ ("Example" :> "example") @@ ("UTM" :> "utm") @@ ("Q" :> "q")
               @@ ("Format" :> "format")

Lower(c) == IF c \in DOMAIN UpperTokens THEN UpperTokens[c] ELSE c

LowerStr(s) == [i \in DOMAIN s |-> Lower(s[i])]

RECURSIVE FlattenSeq(_)
FlattenSeq(ss) == IF ss = <<>> THEN <<>> ELSE Head(ss) \o FlattenSeq(Tail(ss))

SeqToSet(s) == {s[i] : i \in DOMAIN s}

----------------------------------------------------------------------------
(* URLs: urlparse's components.  An href is what an HTML attribute holds:   *)
(* an absolute URL (netloc given, possibly empty as in "mailto:x") or a     *)
(* root-relative reference ("/a?x=1").                                      *)

Domain == <<"example", ".", "com">>

\* one name=value pair of a query string
P(name, value) == [name |-> name, value |-> value]

Url(netloc, path, query) == [netloc |-> netloc, path |-> path, query |-> query]

AbsHref(netloc, path, query) ==
    [abs |-> TRUE, netloc |-> netloc, path |-> path, query |-> query]

RelHref(path, query) ==
    [abs |-> FALSE, netloc |-> <<>>, path |-> path, query |-> query]

urljoin(base, href) ==
    IF href.abs
    THEN Url(href.netloc, href.path, href.query)
    ELSE Url(base.netloc, href.path, href.query)

HasQuestionMark(u) == u.query # <<>>

\* "&".join(name + "=" + value)
RECURSIVE QueryStr(_)
QueryStr(q) ==
    IF q = <<>> THEN <<>>
    ELSE Head(q).name \o <<"=">> \o Head(q).value
         \o (IF Tail(q) = <<>> THEN <<>> ELSE <<"&">> \o QueryStr(Tail(q)))

\* the URL as a string
UrlStr(u) ==
    <<"https://">> \o u.netloc \o u.path
    \o (IF u.query = <<>> THEN <<>> ELSE <<"?">> \o QueryStr(u.query))

\* len(url), in tokens
UrlLen(u) == Len(UrlStr(u))

\* sub in s
Contains(s, sub) ==
    \E i \in 0 .. (Len(s) - Len(sub)) : SubSeq(s, i + 1, i + Len(sub)) = sub

StartsWith(s, prefix) ==
    Len(s) >= Len(prefix) /\ SubSeq(s, 1, Len(prefix)) = prefix

StaticExtensions == {<<".css">>, <<".js">>, <<".png">>, <<".jpg">>, <<".gif">>,
                     <<".ico">>, <<".pdf">>}

MaxUrlLength == 2000

\* mutant: the suffix test without the separating dot
_is_same_domain_nodot(url, domain) ==
    url.netloc = domain \/ EndsWith(url.netloc, domain)

_is_same_domain(url, domain) ==
    url.netloc = domain \/ EndsWith(url.netloc, <<".">> \o domain)

_is_valid_crawl_url(url, domain) ==
    IF url.query = <<>> THEN FALSE
    ELSE IF ~_is_same_domain(url, domain) THEN FALSE
    ELSE IF \E ext \in StaticExtensions : EndsWith(LowerStr(url.path), ext) THEN FALSE
    ELSE IF UrlLen(url) > MaxUrlLength THEN FALSE
    ELSE TRUE

----------------------------------------------------------------------------
(* HTML pages: the elements carrying a URL attribute, in document order,    *)
(* and the quoted strings with a '?' found in inline scripts (urlkw: the    *)
(* string follows "url:" or "url=", so the second pattern matches it too).  *)

Selectors == <<"a", "form", "iframe", "img", "script", "link">>

Elem(tag, href) == [tag |-> tag, href |-> href]

ValidJoined(hrefs, base_url, domain) ==
    SelectSeq([i \in DOMAIN hrefs |-> urljoin(base_url, hrefs[i])],
              LAMBDA u : _is_valid_crawl_url(u, domain))

_extract_urls_from_js_snippet(js, base_url, domain) ==
    ValidJoined([i \in DOMAIN js |-> js[i].href], base_url, domain)
    \o ValidJoined([i \in DOMAIN SelectSeq(js, LAMBDA q : q.urlkw) |->
                       SelectSeq(js, LAMBDA q : q.urlkw)[i].href],
                   base_url, domain)

_extract_urls_from_html(html, base_url, domain) ==
    LET bySelector(tag) ==
            LET es == SelectSeq(html.elems,
                                LAMBDA e : e.tag = tag /\ HasQuestionMark(e.href))
            IN  ValidJoined([i \in DOMAIN es |-> es[i].href], base_url, domain)
    IN  FlattenSeq([i \in DOMAIN Selectors |-> bySelector(Selectors[i])])
        \o _extract_urls_from_js_snippet(html.scripts, base_url, domain)

\* soup.find_all('a', href=True)
AnchorHrefs(html) ==
    LET es == SelectSeq(html.elems, LAMBDA e : e.tag = "a")
    IN  [i \in DOMAIN es |-> es[i].href]

LinksPerPage == 10

----------------------------------------------------------------------------
(* The pages a server may answer with *)

Sub == <<"sub", ".">> \o Domain
Evil == <<"evil">> \o Domain
Other == <<"other", ".", "org">>

CrossLink == Elem("a", AbsHref(Other, <<"/">>, <<P(<<"q">>, <<"1">>)>>))

PageBodies == <<
    \* 1: relative links, one with a query; a form, a static image and an
    \*    inline script
    [elems |-> << Elem("a", RelHref(<<"/a">>, <<>>)),
                  Elem("a", RelHref(<<"/a">>, <<P(<<"x">>, <<"1">>)>>)),
                  Elem("form", RelHref(<<"/post">>, <<P(<<"f">>, <<"1">>)>>)),
                  Elem("img", RelHref(<<"/logo", ".PNG">>, <<P(<<"v">>, <<"2">>)>>)) >>,
     scripts |-> << [href |-> RelHref(<<"/api">>, <<P(<<"k">>, <<"1">>)>>),
                     urlkw |-> TRUE] >>],
    \* 2: a link back to the home page, the same link twice, and with them
    \*    more same-domain links than a small page budget
    [elems |-> << Elem("a", AbsHref(Domain, <<>>, <<>>)),
                  Elem("a", AbsHref(Domain, <<"/a">>, <<>>)),
                  Elem("a", RelHref(<<"/a">>, <<>>)),
                  Elem("a", RelHref(<<"/b">>, <<P(<<"y">>, <<"1">>)>>)) >>,
     scripts |-> <<>>],
    \* 3: a subdomain, a look-alike domain, a mailto link, foreign links up
    \*    to the per-page limit, and a same-domain link past it
    [elems |-> << Elem("a", AbsHref(Sub, <<"/">>, <<P(<<"s">>, <<"1">>)>>)),
                  Elem("a", AbsHref(Evil, <<"/">>, <<P(<<"z">>, <<"1">>)>>)),
                  Elem("a", AbsHref(<<>>, <<"mailto:x">>, <<>>)),
                  CrossLink, CrossLink, CrossLink, CrossLink, CrossLink,
                  CrossLink, CrossLink,
                  Elem("a", RelHref(<<"/late">>, <<>>)) >>,
     scripts |-> <<>>]
>>

----------------------------------------------------------------------------
(* The components a specification does not run stay idle *)

SourceNames == <<"wayback", "sitemap", "js", "crawl">>

MgrIdle ==
    /\ fetchOutcome = [s \in SeqToSet(SourceNames) |-> <<>>]
    /\ srcTasks = <<>>
    /\ mgrPc = "idle"
    /\ mgrIdx = 0
    /\ mgrResults = <<>>

PipeIdle ==
    /\ pipePc = "idle"
    /\ domains = <<>>
    /\ domIdx = 0
    /\ srcIdx = 0
    /\ domain_urls = <<>>
    /\ total_urls = <<>>
    /\ results = <<>>
    /\ discovered_sitemaps = {}
    /\ callLog = <<>>

ScanIdle ==
    /\ scan_request = <<>>
    /\ scan_result = <<>>
    /\ scanPc = "idle"
    /\ scanIdx = 0
    /\ scan_all_urls = <<>>

SiteIdle ==
    /\ site_responses = <<>>
    /\ site_calls = <<>>

SmartIdle ==
    /\ smart_params = {}
    /\ smart_threshold = 0
    /\ smart_todo = {}
    /\ smart_filtered = {}
    /\ filtering_stats = <<>>
    /\ smart_scores = <<>>
    /\ smartPc = "idle"

TestIdle ==
    /\ test_url = <<>>
    /\ test_params = <<>>
    /\ test_filtered = <<>>
    /\ test_cleaned = <<>>
    /\ test_placeholder = <<>>
    /\ test_again = <<>>
    /\ testPc = "idle"

CrawlerIdle ==
    /\ args = [has_crawl_pages |-> FALSE, crawl_pages |-> 0, crawl_depth |-> 0,
               max_urls |-> 1]
    /\ tasks = <<>>
    /\ visited_urls = {}
    /\ discovered_urls = <<>>
    /\ requested = EmptyBag
    /\ mainpc = "idle"
    /\ seedIdx = 0
    /\ crawlResult = {}
    /\ crawl_domain = <<>>

----------------------------------------------------------------------------
(* CrawlerSource (spiderx/sources/crawler.py)                               *)

MaxUrlsCap == 1000
DefaultMaxUrls == 10000
DefaultCrawlPages == 20

Min(a, b) == IF a < b THEN a ELSE b

max_urls == Min(args.max_urls, MaxUrlsCap)
max_depth == args.crawl_depth
max_pages == IF args.has_crawl_pages THEN args.crawl_pages ELSE DefaultCrawlPages

start_urls(domain) == <<
    Url(domain, <<>>, <<>>),
    Url(domain, <<"/search">>, <<>>),
    Url(domain, <<"/products">>, <<>>),
    Url(domain, <<"/shop">>, <<>>),
    Url(domain, <<"/category">>, <<>>),
    Url(domain, <<"/api">>, <<>>) >>

\* a coroutine object of _crawl_recursive(session, url, domain, depth)
NewTask(url, depth, parent) ==
    [url |-> url, depth |-> depth, parent |-> parent, pc |-> "start",
     outcome |-> "none", body |-> 0, raised |-> FALSE]

Finished(t, outcome) == [t EXCEPT !.pc = "done", !.outcome = outcome]

Children(i) == {j \in DOMAIN tasks : tasks[j].parent = i}

FailureOutcomes == {"exception", "non200", "nothtml"}

\* the task handed its URL to session.get
Fetched(t) == t.pc # "start" /\ t.outcome # "skipped"

VisitedCount == Cardinality(visited_urls)

\* fetch_urls, lines 32-33: crawling disabled
CrawlingDisabled == ~args.has_crawl_pages \/ args.crawl_pages <= 0

FetchUrlsBegin ==
    /\ mainpc = "init"
    /\ IF CrawlingDisabled
       THEN /\ mainpc' = "returned"
            /\ crawlResult' = {}
            /\ UNCHANGED seedIdx
       ELSE /\ mainpc' = "loop"
            /\ seedIdx' = 1
            /\ UNCHANGED crawlResult
    /\ UNCHANGED <<libVars, mgrVars, pipeVars, crawl_domain>>
    /\ UNCHANGED <<args, tasks, visited_urls, discovered_urls, requested>>

\* fetch_urls, lines 51-55: one turn of the loop over start_urls
LoopBreaks == VisitedCount >= max_pages

SeedLoop ==
    /\ mainpc = "loop"
    /\ IF seedIdx > Len(start_urls(crawl_domain)) \/ LoopBreaks
       THEN /\ mainpc' = "post"
            /\ UNCHANGED tasks
       ELSE /\ tasks' = Append(tasks, NewTask(start_urls(crawl_domain)[seedIdx], 0, 0))
            /\ mainpc' = "await"
    /\ UNCHANGED <<libVars, mgrVars, pipeVars, crawl_domain>>
    /\ UNCHANGED <<args, visited_urls, discovered_urls, requested, seedIdx,
                   crawlResult>>

\* the coroutine fetch_urls awaits: the seed task created last
AwaitedSeed ==
    CHOOSE i \in DOMAIN tasks :
        /\ tasks[i].parent = 0
        /\ \A j \in DOMAIN tasks : tasks[j].parent = 0 => j <= i

\* line 55: the awaited seed coroutine has returned, or raised
SeedReturn ==
    /\ mainpc = "await"
    /\ tasks[AwaitedSeed].pc = "done"
    /\ IF tasks[AwaitedSeed].raised
       THEN mainpc' = "raised" /\ UNCHANGED seedIdx
       ELSE mainpc' = "loop" /\ seedIdx' = seedIdx + 1
    /\ UNCHANGED <<libVars, mgrVars, pipeVars, crawl_domain>>
    /\ UNCHANGED <<args, tasks, visited_urls, discovered_urls, requested,
                   crawlResult>>

\* fetch_urls, lines 58-65: filter, deduplicate, truncate (list(set(..))
\* has no defined order, so any max_urls of them may be kept)
FetchUrlsReturn ==
    /\ mainpc = "post"
    /\ LET param_urls == SelectSeq(discovered_urls, HasQuestionMark)
           unique_urls == SeqToSet(param_urls)
       IN  IF Cardinality(unique_urls) > max_urls
           THEN \E kept \in SUBSET unique_urls :
                   /\ Cardinality(kept) = max_urls
                   /\ crawlResult' = kept
           ELSE crawlResult' = unique_urls
    /\ mainpc' = "returned"
    /\ UNCHANGED <<libVars, mgrVars, pipeVars, crawl_domain>>
    /\ UNCHANGED <<args, tasks, visited_urls, discovered_urls, requested, seedIdx>>

----------------------------------------------------------------------------
(* _crawl_recursive, lines 67-112.  Its suspension points are session.get   *)
(* (line 83), response.text() (line 85) and asyncio.gather (line 108).      *)

\* mutant: the entry check without the page budget
EntryRefusedDepthOnly(t) == t.depth > max_depth

\* line 69
EntryRefused(t) == t.depth > max_depth \/ VisitedCount >= max_pages

\* mutant: no visited check
AlreadyVisitedNever(t) == FALSE

\* line 72
AlreadyVisited(t) == t.url \in visited_urls

\* mutant: the child coroutines are created but never started
ScheduledSeedsOnly(i) == tasks[i].parent = 0

\* a task runs once its parent has gathered it (seeds are awaited directly)
Scheduled(i) ==
    IF tasks[i].parent = 0 THEN TRUE ELSE tasks[tasks[i].parent].pc = "gather"

\* lines 69-83: entry checks, visited_urls.add, then the request is issued
CrawlEnter(i) ==
    /\ tasks[i].pc = "start"
    /\ Scheduled(i)
    /\ IF EntryRefused(tasks[i]) \/ AlreadyVisited(tasks[i])
       THEN /\ tasks' = [tasks EXCEPT ![i] = Finished(@, "skipped")]
            /\ UNCHANGED <<visited_urls, requested>>
       ELSE /\ visited_urls' = visited_urls \cup {tasks[i].url}
            /\ requested' = requested (+) SetToBag({tasks[i].url})
            /\ tasks' = [tasks EXCEPT ![i].pc = "get"]
    /\ UNCHANGED <<libVars, mgrVars, pipeVars, crawl_domain>>
    /\ UNCHANGED <<args, discovered_urls, mainpc, seedIdx, crawlResult>>

\* mutant: no except clause, the error leaves the coroutine
OnCrawlErrorPropagates(t) == [Finished(t, "exception") EXCEPT !.raised = TRUE]

\* lines 110-112: except Exception swallows the error
OnCrawlError(t) == Finished(t, "exception")

\* what session.get may produce: an exception (timeout, connection error)
\* or a response with a status and a content type
Responses == { [exc |-> TRUE, status |-> 0, ctype |-> "none"],
               [exc |-> FALSE, status |-> 200, ctype |-> "text/html"],
               [exc |-> FALSE, status |-> 404, ctype |-> "text/html"],
               [exc |-> FALSE, status |-> 200, ctype |-> "application/json"] }

\* line 84
PageAccepted(r) == r.status = 200 /\ r.ctype = "text/html"

\* lines 83-84: the response arrives
GetResponse(i) ==
    /\ tasks[i].pc = "get"
    /\ \E r \in Responses :
          tasks' = [tasks EXCEPT ![i] =
                       IF r.exc THEN OnCrawlError(@)
                       ELSE IF PageAccepted(r) THEN [@ EXCEPT !.pc = "text"]
                       ELSE IF r.status # 200 THEN Finished(@, "non200")
                       ELSE Finished(@, "nothtml")]
    /\ UNCHANGED <<libVars, mgrVars, pipeVars, crawl_domain>>
    /\ UNCHANGED <<args, visited_urls, discovered_urls, requested, mainpc,
                   seedIdx, crawlResult>>

\* mutant: assignment instead of extend
ExtendDiscoveredOverwrite(acc, page_urls) == page_urls

\* line 89
ExtendDiscovered(acc, page_urls) == acc \o page_urls

\* mutant: off by one
MayRecurseInclusive(t) == t.depth <= max_depth

\* line 92
MayRecurse(t) == t.depth < max_depth

\* line 103
BudgetLeft == VisitedCount < max_pages

\* lines 93-105: the coroutines created for the links of one page
CrawlTargets(t, html) ==
    IF MayRecurse(t)
    THEN LET links == Take(AnchorHrefs(html), LinksPerPage)
             absolute == [k \in DOMAIN links |-> urljoin(t.url, links[k])]
         IN  SelectSeq(absolute,
                       LAMBDA u : _is_same_domain(u, crawl_domain) /\ BudgetLeft)
    ELSE <<>>

\* lines 85-108: the body arrives; extract, extend, create and gather the
\* child coroutines
ReadText(i) ==
    /\ tasks[i].pc = "text"
    /\ \/ /\ tasks' = [tasks EXCEPT ![i] = OnCrawlError(@)]
          /\ UNCHANGED discovered_urls
       \/ \E b \in DOMAIN PageBodies :
             LET t == tasks[i]
                 html == PageBodies[b]
                 page_urls == _extract_urls_from_html(html, t.url, crawl_domain)
                 crawl_tasks == CrawlTargets(t, html)
             IN  /\ discovered_urls' = ExtendDiscovered(discovered_urls, page_urls)
                 /\ tasks' =
                       [tasks EXCEPT ![i] =
                           IF crawl_tasks = <<>>
                           THEN Finished([@ EXCEPT !.body = b], "ok")
                           ELSE [@ EXCEPT !.pc = "gather", !.body = b,
                                          !.outcome = "ok"]]
                       \o [k \in DOMAIN crawl_tasks |->
                              NewTask(crawl_tasks[k], t.depth + 1, i)]
    /\ UNCHANGED <<libVars, mgrVars, pipeVars, crawl_domain>>
    /\ UNCHANGED <<args, visited_urls, requested, mainpc, seedIdx, crawlResult>>

\* line 108: gather(*crawl_tasks, return_exceptions=True) completes when
\* every child has finished, whether it returned or raised
GatherDone(i) ==
    /\ tasks[i].pc = "gather"
    /\ \A j \in Children(i) : tasks[j].pc = "done"
    /\ tasks' = [tasks EXCEPT ![i].pc = "done"]
    /\ UNCHANGED <<libVars, mgrVars, pipeVars, crawl_domain>>
    /\ UNCHANGED <<args, visited_urls, discovered_urls, requested, mainpc,
                   seedIdx, crawlResult>>

\* the arguments of a run: small page budgets at every depth, and the
\* default page budget with recursion switched off
CrawlArgs ==
    [has_crawl_pages : BOOLEAN,
     crawl_pages : 0 .. MaxPagesBound,
     crawl_depth : 0 .. MaxDepthBound,
     max_urls : {1, DefaultMaxUrls}]
    \cup
    [has_crawl_pages : {TRUE},
     crawl_pages : {DefaultCrawlPages},
     crawl_depth : {0},
     max_urls : {DefaultMaxUrls}]

CrawlInit ==
    /\ args \in CrawlArgs
    /\ tasks = <<>>
    /\ visited_urls = {}
    /\ discovered_urls = <<>>
    /\ requested = EmptyBag
    /\ mainpc = "init"
    /\ seedIdx = 0
    /\ crawlResult = {}
    /\ crawl_domain = Domain
    /\ MgrIdle
    /\ PipeIdle
    /\ ScanIdle
    /\ TestIdle
    /\ SmartIdle
    /\ SiteIdle

CrawlNext ==
    \/ FetchUrlsBegin
    \/ SeedLoop
    \/ SeedReturn
    \/ FetchUrlsReturn
    \/ \E i \in DOMAIN tasks : CrawlEnter(i)
    \/ \E i \in DOMAIN tasks : GetResponse(i)
    \/ \E i \in DOMAIN tasks : ReadText(i)
    \/ \E i \in DOMAIN tasks : GatherDone(i)

CrawlSpec == CrawlInit /\ [][CrawlNext]_vars

\* every network operation completes or fails (ClientTimeout) and the event
\* loop runs every ready task
CrawlFairSpec == CrawlSpec /\ WF_vars(CrawlNext)

----------------------------------------------------------------------------
(* SourceManager (spiderx/sources/manager.py)                               *)

\* self.sources, lines 22-27
Registered == SeqToSet(SourceNames)

\* fetch_from_source, lines 39-57: every URL string becomes a record
Enrich(urls, domain, source_name) ==
    [i \in DOMAIN urls |->
        [url |-> urls[i], domain |-> domain, source |-> source_name]]

\* what awaiting source.fetch_urls(domain) may do: raise, or return URLs
SourceOutcomes ==
    { [raises |-> TRUE, urls |-> <<>>],
      [raises |-> FALSE, urls |-> <<>>],
      [raises |-> FALSE, urls |-> <<"u1">>],
      [raises |-> FALSE, urls |-> <<"u1", "u2">>] }

\* fetch_from_all_sources, lines 64-72: one task per registered source; the
\* loop does not suspend, so the tasks start running only afterwards
\* mutant: only the first source gets a task before the awaiting starts
TaskNamesFirstOnly == <<SourceNames[1]>>

\* line 66: for source_name in self.sources.keys()
TaskNames == SourceNames

CreateTasks ==
    /\ mgrPc = "start"
    /\ srcTasks' = [i \in DOMAIN TaskNames |->
                       [name |-> TaskNames[i], pc |-> "scheduled",
                        raised |-> FALSE, value |-> <<>>]]
    /\ mgrResults' = <<>>
    /\ mgrIdx' = 1
    /\ mgrPc' = "await"
    /\ UNCHANGED <<libVars, crawlVars, pipeVars, fetchOutcome>>

\* fetch_from_source, lines 31-37: the task runs up to the await of
\* source.fetch_urls; an unknown name raises ValueError
SourceStart(i) ==
    /\ mgrPc = "await"
    /\ srcTasks[i].pc = "scheduled"
    /\ srcTasks' = [srcTasks EXCEPT ![i] =
                       IF @.name \in Registered
                       THEN [@ EXCEPT !.pc = "fetching"]
                       ELSE [@ EXCEPT !.pc = "done", !.raised = TRUE]]
    /\ UNCHANGED <<libVars, crawlVars, pipeVars, fetchOutcome, mgrPc, mgrIdx, mgrResults>>

\* fetch_from_source, lines 37-60: fetch_urls returned (enrich, return) or
\* raised (re-raised as Exception)
SourceFinish(i) ==
    /\ srcTasks[i].pc = "fetching"
    /\ LET o == fetchOutcome[srcTasks[i].name]
       IN  srcTasks' = [srcTasks EXCEPT ![i] =
                           IF o.raises
                           THEN [@ EXCEPT !.pc = "done", !.raised = TRUE]
                           ELSE [@ EXCEPT !.pc = "done",
                                          !.value = Enrich(o.urls, Domain,
                                                           srcTasks[i].name)]]
    /\ UNCHANGED <<libVars, crawlVars, pipeVars, fetchOutcome, mgrPc, mgrIdx, mgrResults>>

\* mutant: no try/except around the await
AwaitOutcomeNoExcept(t) ==
    IF t.raised THEN [raises |-> TRUE, value |-> <<>>]
    ELSE [raises |-> FALSE, value |-> t.value]

\* lines 75-79: await task; except Exception: results[source_name] = []
AwaitOutcome(t) ==
    IF t.raised THEN [raises |-> FALSE, value |-> <<>>]
    ELSE [raises |-> FALSE, value |-> t.value]

\* lines 74-79: one turn of the loop over the tasks
\* the event loop runs its ready queue in order: the first steps of the
\* tasks were queued by create_task before the caller suspended, so they
\* have all run by the time the caller is woken
FirstStepsRun == \A i \in DOMAIN srcTasks : srcTasks[i].pc # "scheduled"

AwaitTask ==
    /\ mgrPc = "await"
    /\ mgrIdx <= Len(srcTasks)
    /\ srcTasks[mgrIdx].pc = "done"
    /\ FirstStepsRun
    /\ LET o == AwaitOutcome(srcTasks[mgrIdx])
       IN  IF o.raises
           THEN /\ mgrPc' = "raised"
                /\ UNCHANGED <<mgrIdx, mgrResults>>
           ELSE /\ mgrResults' = mgrResults @@ (srcTasks[mgrIdx].name :> o.value)
                /\ mgrIdx' = mgrIdx + 1
                /\ UNCHANGED mgrPc
    /\ UNCHANGED <<libVars, crawlVars, pipeVars, fetchOutcome, srcTasks>>

\* line 81
MgrReturn ==
    /\ mgrPc = "await"
    /\ mgrIdx > Len(srcTasks)
    /\ mgrPc' = "returned"
    /\ UNCHANGED <<libVars, crawlVars, pipeVars, fetchOutcome, srcTasks, mgrIdx, mgrResults>>

ManagerInit ==
    /\ CrawlerIdle
    /\ PipeIdle
    /\ fetchOutcome \in [Registered -> SourceOutcomes]
    /\ srcTasks = <<>>
    /\ mgrPc = "start"
    /\ mgrIdx = 0
    /\ mgrResults = <<>>
    /\ ScanIdle
    /\ TestIdle
    /\ SmartIdle
    /\ SiteIdle

ManagerNext ==
    \/ CreateTasks
    \/ \E i \in DOMAIN srcTasks : SourceStart(i)
    \/ \E i \in DOMAIN srcTasks : SourceFinish(i)
    \/ AwaitTask
    \/ MgrReturn

ManagerSpec == ManagerInit /\ [][ManagerNext]_vars

----------------------------------------------------------------------------
(* ParameterFilter (spiderx/filters.py).  A parameter name is a sequence of *)
(* tokens cut at every "_" and after a leading "session", "track" or        *)
(* "cache", so that the prefixes and suffixes of the patterns are token     *)
(* sequences.                                                               *)

\* default_boring_params, lines 20-59
default_boring_params == {
    <<"utm", "_", "source">>, <<"utm", "_", "medium">>,
    <<"utm", "_", "campaign">>, <<"utm", "_", "term">>,
    <<"utm", "_", "content">>, <<"utm", "_", "id">>,
    <<"utm", "_", "source", "_", "platform">>,
    <<"utm", "_", "creative", "_", "format">>,
    <<"utm", "_", "marketing", "_", "tactic">>, <<"gclid">>, <<"gclsrc">>,
    <<"dclid">>, <<"fbclid">>, <<"msclkid">>, <<"ttclid">>,
    <<"ga", "_", "source">>, <<"ga", "_", "medium">>,
    <<"ga", "_", "campaign">>, <<"ga", "_", "term">>,
    <<"ga", "_", "content">>, <<"_", "ga">>, <<"_", "gid">>, <<"_", "gat">>,
    <<"_", "gtm">>, <<"gtm", "_", "debug">>, <<"ref">>, <<"referer">>,
    <<"referrer">>, <<"source">>, <<"from">>, <<"via">>, <<"share">>,
    <<"shared">>, <<"sharer">>, <<"social">>, <<"sns">>, <<"session">>,
    <<"session", "id">>, <<"session", "_", "id">>, <<"sessid">>, <<"sid">>,
    <<"user">>, <<"userid">>, <<"user", "_", "id">>, <<"uid">>, <<"uuid">>,
    <<"visitor">>, <<"visitorid">>, <<"visitor", "_", "id">>, <<"vid">>,
    <<"track">>, <<"track", "ing">>, <<"track", "er">>, <<"track", "id">>,
    <<"track", "_", "id">>, <<"cache">>, <<"nocache">>,
    <<"cache", "buster">>, <<"cb">>, <<"timestamp">>, <<"ts">>, <<"t">>,
    <<"version">>, <<"ver">>, <<"v">>, <<"rev">>, <<"revision">>, <<"_">>,
    <<"_", "_">>, <<"_", "_", "_">>, <<"lang">>, <<"language">>,
    <<"locale">>, <<"l">>, <<"ln">>, <<"theme">>, <<"skin">>, <<"style">>,
    <<"css">>, <<"debug">>, <<"test">>, <<"dev">>, <<"development">>,
    <<"format">>, <<"output">>, <<"type">>, <<"ext">>, <<"redirect">>,
    <<"return">>, <<"next">>, <<"continue">>, <<"back">>, <<"mobile">>,
    <<"desktop">>, <<"app">>, <<"client">>, <<"noscript">>, <<"nojs">>,
    <<"js">>, <<"page">>, <<"p">>, <<"offset">>, <<"start">>, <<"begin">>,
    <<"limit">>, <<"count">>, <<"size">>, <<"per", "_", "page">>,
    <<"perpage">>, <<"time">>, <<"date">>, <<"datetime">>, <<"created">>,
    <<"updated">>, <<"year">>, <<"month">>, <<"day">>, <<"hour">>,
    <<"minute">> }

\* boring_patterns, lines 65-81: "^prefix.*" and ".*suffix$"
BoringPrefixes == { <<"utm", "_">>, <<"ga", "_">>, <<"fb", "_">>, <<"ig", "_">>,
                    <<"tw", "_">>, <<"li", "_">>, <<"session">>, <<"track">>,
                    <<"cache">> }

BoringSuffixes == { <<"_", "track", "ing">>, <<"_", "track">>, <<"_", "ref">>,
                    <<"_", "source">>, <<"_", "campaign">>, <<"_", "medium">> }

\* _load_boring_from_file, lines 100-113: a file that does not exist yields
\* no parameter (FileNotFoundError is caught); blank lines and comments are
\* skipped
_load_boring_from_file(file) ==
    IF file.status = "missing" THEN {}
    ELSE {LowerStr(l) : l \in {m \in SeqToSet(file.lines) :
                                   m # <<>> /\ Head(m) # "#"}}

\* _load_boring_parameters, lines 85-98
boring_params ==
    default_boring_params
    \cup args.custom_filter
    \cup (IF args.boring_list.given
          THEN _load_boring_from_file(args.boring_list) ELSE {})

\* str.split(sep)
RECURSIVE SplitOn(_, _)
SplitOn(s, sep) ==
    IF s = <<>> THEN << <<>> >>
    ELSE LET rest == SplitOn(Tail(s), sep)
         IN  IF Head(s) = sep THEN << <<>> >> \o rest
             ELSE << <<Head(s)>> \o Head(rest) >> \o Tail(rest)

\* the characters urllib writes and reads in another form
QuoteTable == ("<" :> "%3C") @@ (">" :> "%3E") @@ ("[" :> "%5B") @@ ("]" :> "%5D")
              @@ (" " :> "+") @@ ("&" :> "%26") @@ ("=" :> "%3D")

\* urllib.parse.quote_plus
quote_plus(s) ==
    [i \in DOMAIN s |-> IF s[i] \in DOMAIN QuoteTable THEN QuoteTable[s[i]] ELSE s[i]]

\* urllib.parse.unquote_plus, applied by parse_qs to names and values
unquote_plus(s) ==
    [i \in DOMAIN s |->
        IF \E c \in DOMAIN QuoteTable : QuoteTable[c] = s[i]
        THEN CHOOSE c \in DOMAIN QuoteTable : QuoteTable[c] = s[i]
        ELSE s[i]]

\* the keys of a dict built from a sequence, in insertion order
RECURSIVE DictKeys(_)
DictKeys(s) ==
    IF s = <<>> THEN <<>>
    ELSE LET front == DictKeys(SubSeq(s, 1, Len(s) - 1))
             last == s[Len(s)]
         IN  IF last \in SeqToSet(front) THEN front ELSE Append(front, last)

\* urlparse raises ValueError for a netloc with an unmatched bracket
UrlparseRaises(url) ==
    ("[" \in SeqToSet(url.netloc)) # ("]" \in SeqToSet(url.netloc))

\* name_value.split('=', 1) of parse_qsl, both parts unquoted
SplitPair(field) ==
    LET at == {i \in DOMAIN field : field[i] = "="}
        eq == IF at = {} THEN Len(field) + 1
              ELSE CHOOSE i \in at : \A j \in at : i <= j
    IN  P(unquote_plus(SubSeq(field, 1, eq - 1)),
          unquote_plus(SubSeq(field, eq + 1, Len(field))))

\* urllib.parse.parse_qsl(text, keep_blank_values=True): the text is cut at
\* every "&", empty pieces are skipped
parse_qsl(text) ==
    LET fields == SelectSeq(SplitOn(text, "&"), LAMBDA field : field # <<>>)
    IN  [i \in DOMAIN fields |-> SplitPair(fields[i])]

\* every name of the query, repeated as often as it occurs
extract_parameters_every_pair(url) ==
    LET pairs == parse_qsl(QueryStr(url.query))
    IN  [i \in DOMAIN pairs |-> pairs[i].name]

\* extract_parameters, lines 115-122: list(parse_qs(query).keys()), and an
\* empty list when an exception is raised
extract_parameters(url) ==
    IF UrlparseRaises(url) THEN <<>>
    ELSE LET pairs == parse_qsl(QueryStr(url.query))
         IN  DictKeys([i \in DOMAIN pairs |-> pairs[i].name])

\* the name as it is written is boring
IsBoringAsWritten(param) ==
    \/ param \in boring_params
    \/ \E pre \in BoringPrefixes : StartsWith(param, pre)
    \/ \E suf \in BoringSuffixes : EndsWith(param, suf)

\* lines 132-143
IsBoring(param) ==
    LET param_lower == LowerStr(param)
    IN  \/ param_lower \in boring_params
        \/ \E pre \in BoringPrefixes : StartsWith(param_lower, pre)
        \/ \E suf \in BoringSuffixes : EndsWith(param_lower, suf)

\* the names that are not boring, last one first
filter_parameters_reversed(parameters) ==
    LET kept == SelectSeq(parameters, LAMBDA param : ~IsBoring(param))
    IN  [i \in DOMAIN kept |-> kept[Len(kept) + 1 - i]]

\* filter_parameters, lines 124-148
filter_parameters(parameters) ==
    SelectSeq(parameters, LAMBDA param : ~IsBoring(param))

\* create_cleaned_url, lines 150-167: the query is replaced by
\* "p1=<placeholder>&p2=<placeholder>..."
create_cleaned_url(url, parameters, placeholder) ==
    IF UrlparseRaises(url) THEN url
    ELSE [url EXCEPT !.query = [i \in DOMAIN parameters |->
                                   P(parameters[i], placeholder)]]

----------------------------------------------------------------------------
(* What the network holds for a target domain: the archive's index, the     *)
(* site's robots.txt, sitemaps, home page and scripts.                      *)

U_search(d) == Url(d, <<"/search">>, << P(<<"q">>, <<"1">>),
                                       P(<<"utm", "_", "source">>, <<"g">>) >>)
U_plain(d) == Url(d, <<"/about">>, <<>>)
U_track(d) == Url(d, <<"/t">>, << P(<<"UTM", "_", "source">>, <<"x">>) >>)
U_api(d) == Url(d, <<"/api", "/v1">>, << P(<<"id">>, <<"1">>),
                                        P(<<"id">>, <<"2">>) >>)
U_users(d) == Url(<<"api", ".">> \o d, <<"/users">>,
                  << P(<<"id">>, <<"123">>), P(<<"format">>, <<"json">>),
                     P(<<"key">>, <<"secret">>) >>)
U_redirect(d) == Url(<<"cdn", ".", "net">>, <<"/r">>, << P(<<"to">>, d) >>)

\* the address of a file that is requested
Loc(scheme, netloc, path) == [scheme |-> scheme, netloc |-> netloc, path |-> path]

\* how a request ends: an exception (timeout, connection error), a status
\* other than 200, or status 200 with the body
NetOutcomes == {"error", "status", "ok"}

Perms(S) ==
    {p \in [1 .. Cardinality(S) -> S] :
        \A i, j \in 1 .. Cardinality(S) : p[i] = p[j] => i = j}

\* list(set(urls))[:limit]: the order of a set is not defined
UniqueLimited(urls, limit) == {Take(p, limit) : p \in Perms(SeqToSet(urls))}

\* the requests of one call that the outcome of the call is made of
AllFailed(net, made) == \A c \in made : net[c] # "ok"

----------------------------------------------------------------------------
(* WaybackSource (spiderx/sources/wayback.py)                               *)

WaybackRequests == {"cdx", "cdx_subdomains"}

\* the lines of the index for the two endpoints, lines 28-31
CdxLines(endpoint, domain) ==
    IF endpoint = "cdx" THEN << U_search(domain), U_plain(domain) >>
    ELSE << U_search(domain), U_users(domain) >>

\* _fetch_from_endpoint, lines 56-76
_fetch_from_endpoint(endpoint, domain, net) ==
    IF net[endpoint] = "error" THEN <<>>
    ELSE IF net[endpoint] = "ok" THEN CdxLines(endpoint, domain)
    ELSE <<>>

\* WaybackSource.fetch_urls, lines 23-54: the lists it may return
WaybackFetchUrls(domain, net) ==
    UniqueLimited(_fetch_from_endpoint("cdx", domain, net)
                  \o _fetch_from_endpoint("cdx_subdomains", domain, net),
                  args.max_urls)

----------------------------------------------------------------------------
(* SitemapSource (spiderx/sources/sitemap.py)                               *)

SitemapRequests == {"robots_https", "robots_http", "sitemap_xml", "declared",
                    "conventional"}

\* lines 30-37
sitemap_urls(domain) == <<
    Loc("https", domain, <<"/sitemap", ".xml">>),
    Loc("https", domain, <<"/sitemap_index", ".xml">>),
    Loc("https", domain, <<"/sitemaps", ".xml">>),
    Loc("https", domain, <<"/sitemap/">>),
    Loc("http", domain, <<"/sitemap", ".xml">>),
    Loc("http", domain, <<"/robots", ".txt">>) >>

\* the "Sitemap:" lines of the site's robots.txt
RobotsSitemaps(domain) == << Loc("https", domain, <<"/custom", ".xml">>) >>

\* the <loc> entries of the site's sitemaps
SitemapContent(sitemap_url, domain) ==
    IF sitemap_url = sitemap_urls(domain)[1]
    THEN << U_search(domain), U_plain(domain) >>
    ELSE IF sitemap_url \in SeqToSet(RobotsSitemaps(domain))
    THEN << U_redirect(domain) >>
    ELSE <<>>

\* the request a sitemap address is fetched with
SitemapRequest(sitemap_url, domain) ==
    IF sitemap_url = sitemap_urls(domain)[1] THEN "sitemap_xml"
    ELSE IF sitemap_url \in SeqToSet(RobotsSitemaps(domain)) THEN "declared"
    ELSE "conventional"

\* _get_sitemaps_from_robots, lines 69-87: https first, then http; stops at
\* the first 200
_get_sitemaps_from_robots(domain, net) ==
    IF net["robots_https"] = "ok" THEN RobotsSitemaps(domain)
    ELSE IF net["robots_http"] = "ok" THEN RobotsSitemaps(domain)
    ELSE <<>>

\* _parse_sitemap_content, lines 109-139
_parse_sitemap_content(content, domain) ==
    SelectSeq(content,
              LAMBDA u : HasQuestionMark(u) /\ Contains(UrlStr(u), domain))

\* _process_sitemap, lines 89-107
_process_sitemap(sitemap_url, domain, net) ==
    IF net[SitemapRequest(sitemap_url, domain)] = "ok"
    THEN _parse_sitemap_content(SitemapContent(sitemap_url, domain), domain)
    ELSE <<>>

\* lines 50-54: the sitemaps not processed before
NewSitemaps(domain, net) ==
    SeqToSet(sitemap_urls(domain) \o _get_sitemaps_from_robots(domain, net))
    \ discovered_sitemaps

\* the requests a call makes
SitemapRequestsMade(domain, net) ==
    {"robots_https"}
    \cup (IF net["robots_https"] # "ok" THEN {"robots_http"} ELSE {})
    \cup {SitemapRequest(s, domain) : s \in NewSitemaps(domain, net)}

\* SitemapSource.fetch_urls, lines 25-67: the lists it may return (the order
\* of the gathered results does not matter under set())
SitemapFetchUrls(domain, net) ==
    LET order == SelectSeq(DictKeys(sitemap_urls(domain)
                                    \o _get_sitemaps_from_robots(domain, net)),
                           LAMBDA s : s \notin discovered_sitemaps)
        all_urls == FlattenSeq([i \in DOMAIN order |->
                                   _process_sitemap(order[i], domain, net)])
    IN  UniqueLimited(all_urls, args.max_urls)

----------------------------------------------------------------------------
(* JavaScriptSource (spiderx/sources/javascript.py)                         *)

JsRequests == {"homepage_https", "homepage_http", "page_script", "app_js",
               "common"}

\* lines 83-87
common_js_paths == <<
    <<"/js", "/app", ".js">>, <<"/js", "/main", ".js">>,
    <<"/js", "/bundle", ".js">>, <<"/js", "/script", ".js">>,
    <<"/assets", "/js", "/app", ".js">>, <<"/assets", "/js", "/main", ".js">>,
    <<"/static", "/js", "/main", ".js">>, <<"/dist", "/js", "/app", ".js">>,
    <<"/build", "/js", "/bundle", ".js">> >>

JsFileLimit == 20

\* the src attributes of the script tags of the home page
HomepageScripts == << <<"/static", "/x", ".js">> >>

\* _get_js_from_homepage, lines 104-129: https first, then http; stops at
\* the first 200
_get_js_from_homepage(domain, net) ==
    IF net["homepage_https"] = "ok"
    THEN [i \in DOMAIN HomepageScripts |-> Loc("https", domain, HomepageScripts[i])]
    ELSE IF net["homepage_http"] = "ok"
    THEN [i \in DOMAIN HomepageScripts |-> Loc("http", domain, HomepageScripts[i])]
    ELSE <<>>

\* _discover_js_files, lines 78-102
_discover_js_files(domain, net) ==
    [i \in DOMAIN common_js_paths |-> Loc("https", domain, common_js_paths[i])]
    \o [i \in DOMAIN common_js_paths |-> Loc("http", domain, common_js_paths[i])]
    \o _get_js_from_homepage(domain, net)

\* the quoted strings with a '?' in the site's scripts (fetch: the string is
\* the argument of fetch(), so a second pattern matches it too)
JsContent(js_url, domain) ==
    IF js_url.path = HomepageScripts[1]
    THEN << [href |-> RelHref(<<"/api", "/v1">>, U_api(domain).query),
             fetch |-> TRUE],
            [href |-> AbsHref(Other, <<"/lib">>, << P(<<"x">>, <<"1">>) >>),
             fetch |-> FALSE] >>
    ELSE IF js_url = Loc("https", domain, common_js_paths[1])
    THEN << [href |-> AbsHref(domain, <<"/t">>, U_track(domain).query),
             fetch |-> FALSE] >>
    ELSE <<>>

\* the request a script is fetched with
JsRequest(js_url, domain) ==
    IF js_url.path = HomepageScripts[1] THEN "page_script"
    ELSE IF js_url = Loc("https", domain, common_js_paths[1]) THEN "app_js"
    ELSE "common"

\* _extract_urls_from_js, lines 131-170: the matches of every pattern, made
\* absolute against the address of the script
_extract_urls_from_js(js_url, domain, net) ==
    IF net[JsRequest(js_url, domain)] = "ok"
    THEN LET strings == JsContent(js_url, domain)
             fetched == SelectSeq(strings, LAMBDA q : q.fetch)
             matches == [i \in DOMAIN strings |-> strings[i].href]
                        \o [i \in DOMAIN fetched |-> fetched[i].href]
             valid == SelectSeq(matches, HasQuestionMark)
         IN  [i \in DOMAIN valid |->
                 urljoin(Url(js_url.netloc, js_url.path, <<>>), valid[i])]
    ELSE <<>>

JsStaticExtensions == {".css", ".js", ".png", ".jpg", ".gif", ".ico"}

\* _filter_js_urls, lines 192-218
_filter_js_urls(urls, domain) ==
    SelectSeq(urls,
              LAMBDA u :
                  /\ u.query # <<>>
                  /\ (Contains(u.netloc, domain)
                         \/ EndsWith(u.netloc, <<".">> \o domain))
                  /\ ~\E k \in DOMAIN u.path :
                         Lower(u.path[k]) \in JsStaticExtensions)

\* the requests a call makes
JsRequestsMade(domain, net) ==
    {"homepage_https"}
    \cup (IF net["homepage_https"] # "ok" THEN {"homepage_http"} ELSE {})
    \cup {JsRequest(f, domain) :
             f \in SeqToSet(Take(_discover_js_files(domain, net), JsFileLimit))}

\* JavaScriptSource.fetch_urls, lines 42-76: the lists it may return
JsFetchUrls(domain, net) ==
    LET js_files == Take(_discover_js_files(domain, net), JsFileLimit)
        all_urls == FlattenSeq([i \in DOMAIN js_files |->
                                   _extract_urls_from_js(js_files[i], domain, net)])
    IN  UniqueLimited(_filter_js_urls(all_urls, domain), args.max_urls)

----------------------------------------------------------------------------
(* SpiderXCLI (spiderx/cli_core.py)                                         *)

\* defaultdict(int) and Counter: a key that is read or incremented before it
\* was set counts from 0
Get(d, k) == IF k \in DOMAIN d THEN d[k] ELSE 0

Incr(d, k, n) ==
    IF k \in DOMAIN d THEN [d EXCEPT ![k] = @ + n] ELSE (k :> n) @@ d

\* defaultdict(lambda: defaultdict(int))
IncrNested(d, k1, k2, n) ==
    IF k1 \in DOMAIN d THEN [d EXCEPT ![k1] = Incr(@, k2, n)]
    ELSE (k1 :> (k2 :> n)) @@ d

\* dict.update with one key
Update(d, k, v) == [x \in DOMAIN d \cup {k} |-> IF x = k THEN v ELSE d[x]]

\* __init__, lines 26-32
InitialResults ==
    [urls |-> <<>>, parameters |-> <<>>, domains |-> {}, stats |-> <<>>,
     source_stats |-> <<>>]

\* _get_target_domains, lines 72-77: the domain argument, or the lines of
\* the list file that are not blank
RawDomains ==
    IF args.domain # <<>> THEN << args.domain >>
    ELSE IF args.list.given THEN SelectSeq(args.list.lines, LAMBDA l : l # <<>>)
    ELSE <<>>

\* _read_domains_from_file, lines 90-96: FileNotFoundError becomes a
\* ValueError, any other error of open() leaves as it is
ListFileMissing == args.domain = <<>> /\ args.list.given /\ args.list.status # "ok"

\* lines 82-84: lower(), the scheme removed, cut at the first "/"
CleanDomain(raw) ==
    LET noscheme == SelectSeq(LowerStr(raw),
                              LAMBDA t : t \notin {"http://", "https://"})
    IN  Head(SplitOn(noscheme, "/"))

\* _get_target_domains, lines 79-88: the lists it may return
_get_target_domains ==
    LET cleaned == [i \in DOMAIN RawDomains |-> CleanDomain(RawDomains[i])]
        valid == SelectSeq(cleaned, LAMBDA d : d # <<>> /\ "." \in SeqToSet(d))
    IN  Perms(SeqToSet(valid))

\* _get_enabled_sources, lines 122-127
_get_enabled_sources ==
    IF args.sources = <<"all">> THEN SourceNames
    ELSE LET names == SplitOn(args.sources, ",")
         IN  [i \in DOMAIN names |->
                 IF Len(names[i]) = 1 THEN names[i][1] ELSE names[i]]

\* ParameterFilter.__init__ raises: open() of the boring-list file failed
\* with an error other than FileNotFoundError (filters.py 103-109)
FilterSetupRaises ==
    args.boring_list.given /\ args.boring_list.status = "denied"

\* SpiderXCLI.__init__, lines 23-37
Construct ==
    /\ pipePc = "new"
    /\ IF FilterSetupRaises
       THEN pipePc' = "setup_failed" /\ UNCHANGED results
       ELSE pipePc' = "start" /\ results' = InitialResults
    /\ UNCHANGED <<libVars, crawlVars, mgrVars, domains, domIdx, srcIdx, domain_urls,
                   total_urls, discovered_sitemaps, callLog>>

\* run, lines 44-52
RunBegin ==
    /\ pipePc = "start"
    /\ IF ListFileMissing
       THEN /\ pipePc' = "raised"
            /\ UNCHANGED <<domains, domIdx, srcIdx, results>>
       ELSE \E ds \in _get_target_domains :
               /\ domains' = ds
               /\ IF ds = <<>>
                  THEN /\ pipePc' = "raised"
                       /\ UNCHANGED <<domIdx, srcIdx, results>>
                  ELSE /\ results' = [results EXCEPT !.domains = SeqToSet(ds)]
                       /\ domIdx' = 1
                       /\ srcIdx' = 1
                       /\ pipePc' = "sources"
    /\ UNCHANGED <<libVars, crawlVars, mgrVars, domain_urls, total_urls,
                   discovered_sitemaps, callLog>>

\* the domain run is at and the source _process_domain is at
CurrentDomain == domains[domIdx]
CurrentSource == _get_enabled_sources[srcIdx]

AtSource(name) ==
    /\ pipePc = "sources"
    /\ srcIdx <= Len(_get_enabled_sources)
    /\ CurrentSource = name

\* an entry of the call log
LogEntry(raised, made, failed, count) ==
    [domain |-> CurrentDomain, source |-> CurrentSource, raised |-> raised,
     made |-> made, failed |-> failed, count |-> count]

\* mutant: the failure of a source is not counted
OnSourceErrorSilent(res, source_name) == res

\* _process_domain, lines 116-118
OnSourceError(res, source_name) ==
    [res EXCEPT !.source_stats = IncrNested(@, source_name, "errors", 1)]

\* mutant: an empty list is counted as a failure of the source
OnSourceSuccessEmptyIsError(res, source_name, urls) ==
    IF urls = <<>> THEN OnSourceError(res, source_name)
    ELSE [res EXCEPT !.source_stats = IncrNested(@, source_name, "total_urls", Len(urls)),
                     !.stats = Incr(@, "total_urls_fetched", Len(urls))]

\* _process_domain, lines 110-111
OnSourceSuccess(res, source_name, urls) ==
    [res EXCEPT !.source_stats = IncrNested(@, source_name, "total_urls", Len(urls)),
                !.stats = Incr(@, "total_urls_fetched", Len(urls))]

\* _process_domain, lines 108-114: fetch_from_source returned urls
SourceReturned(urls, made, failed) ==
    /\ results' = OnSourceSuccess(results, CurrentSource, urls)
    /\ domain_urls' = domain_urls \o urls
    /\ callLog' = Append(callLog, LogEntry(FALSE, made, failed, Len(urls)))
    /\ srcIdx' = srcIdx + 1

\* _process_domain, lines 116-118: fetch_from_source raised
SourceRaised ==
    /\ results' = OnSourceError(results, CurrentSource)
    /\ callLog' = Append(callLog, LogEntry(TRUE, FALSE, FALSE, 0))
    /\ srcIdx' = srcIdx + 1
    /\ UNCHANGED domain_urls

\* fetch_from_source, lines 31-32: a name that is not registered
FetchUnknown ==
    /\ pipePc = "sources"
    /\ srcIdx <= Len(_get_enabled_sources)
    /\ CurrentSource \notin Registered
    /\ SourceRaised
    /\ UNCHANGED <<libVars, crawlVars, mgrVars, pipePc, domains, domIdx, total_urls,
                   discovered_sitemaps>>

FetchWayback ==
    /\ AtSource("wayback")
    /\ \E net \in [WaybackRequests -> NetOutcomes] :
          \E urls \in WaybackFetchUrls(CurrentDomain, net) :
              SourceReturned(Enrich(urls, CurrentDomain, "wayback"), TRUE,
                             AllFailed(net, WaybackRequests))
    /\ UNCHANGED <<libVars, crawlVars, mgrVars, pipePc, domains, domIdx, total_urls,
                   discovered_sitemaps>>

FetchSitemap ==
    /\ AtSource("sitemap")
    /\ \E net \in [SitemapRequests -> NetOutcomes] :
          /\ \E urls \in SitemapFetchUrls(CurrentDomain, net) :
                SourceReturned(Enrich(urls, CurrentDomain, "sitemap"), TRUE,
                               AllFailed(net, SitemapRequestsMade(CurrentDomain, net)))
          /\ discovered_sitemaps' =
                discovered_sitemaps \cup NewSitemaps(CurrentDomain, net)
    /\ UNCHANGED <<libVars, crawlVars, mgrVars, pipePc, domains, domIdx, total_urls>>

FetchJs ==
    /\ AtSource("js")
    /\ \E net \in [JsRequests -> NetOutcomes] :
          \E urls \in JsFetchUrls(CurrentDomain, net) :
              SourceReturned(Enrich(urls, CurrentDomain, "js"), TRUE,
                             AllFailed(net, JsRequestsMade(CurrentDomain, net)))
    /\ UNCHANGED <<libVars, crawlVars, mgrVars, pipePc, domains, domIdx, total_urls,
                   discovered_sitemaps>>

\* fetch_from_source awaits CrawlerSource.fetch_urls(domain): the crawler
\* runs on the state its instance kept from the calls before
CrawlCall ==
    /\ AtSource("crawl")
    /\ pipePc' = "crawling"
    /\ mainpc' = "init"
    /\ crawl_domain' = CurrentDomain
    /\ tasks' = <<>>
    /\ requested' = EmptyBag
    /\ seedIdx' = 0
    /\ crawlResult' = {}
    /\ UNCHANGED <<libVars, args, visited_urls, discovered_urls, mgrVars, domains, domIdx,
                   srcIdx, domain_urls, total_urls, results,
                   discovered_sitemaps, callLog>>

\* CrawlerSource.fetch_urls returned its list, or raised
CrawlReturn ==
    /\ pipePc = "crawling"
    /\ mainpc \in {"returned", "raised"}
    /\ IF mainpc = "raised"
       THEN SourceRaised
       ELSE \E urls \in Perms(crawlResult) :
               SourceReturned(Enrich(urls, CurrentDomain, "crawl"),
                              \E i \in DOMAIN tasks : Fetched(tasks[i]),
                              \A i \in DOMAIN tasks : tasks[i].outcome # "ok")
    /\ pipePc' = "sources"
    /\ mainpc' = "idle"
    /\ tasks' = <<>>
    /\ requested' = EmptyBag
    /\ UNCHANGED <<libVars, args, visited_urls, discovered_urls, seedIdx, crawlResult,
                   crawl_domain, mgrVars, domains, domIdx, total_urls,
                   discovered_sitemaps>>

\* _process_domain returns, lines 120 and 57-59: the loop of run goes on to
\* the next domain, or ends
DomainDone ==
    /\ pipePc = "sources"
    /\ srcIdx > Len(_get_enabled_sources)
    /\ total_urls' = total_urls \o domain_urls
    /\ results' = [results EXCEPT !.stats = Incr(@, "domains_processed", 1)]
    /\ domain_urls' = <<>>
    /\ srcIdx' = 1
    /\ IF domIdx < Len(domains)
       THEN domIdx' = domIdx + 1 /\ UNCHANGED pipePc
       ELSE pipePc' = "process" /\ UNCHANGED domIdx
    /\ UNCHANGED <<libVars, crawlVars, mgrVars, domains, discovered_sitemaps, callLog>>

\* lines 165-166
RECURSIVE CountParams(_, _)
CountParams(counter, params) ==
    IF params = <<>> THEN counter
    ELSE CountParams(Incr(counter, Head(params), 1), Tail(params))

\* _process_urls, lines 129-169
RECURSIVE _process_urls(_, _)
_process_urls(urls, res) ==
    IF urls = <<>> THEN res
    ELSE LET url_data == Head(urls)
             params == extract_parameters(url_data.url)
             filtered_params == filter_parameters(params)
             kept == IF args.no_filter THEN params ELSE filtered_params
             processed_url ==
                 [original_url |-> url_data.url,
                  cleaned_url |-> create_cleaned_url(url_data.url, kept,
                                                     args.placeholder),
                  domain |-> url_data.domain,
                  source |-> url_data.source,
                  parameters |-> kept,
                  param_count |-> Len(kept)]
         IN  IF params = <<>> THEN _process_urls(Tail(urls), res)
             ELSE IF ~args.no_filter /\ filtered_params = <<>>
             THEN _process_urls(Tail(urls),
                                [res EXCEPT !.stats = Incr(@, "filtered_out", 1)])
             ELSE _process_urls(Tail(urls),
                                [res EXCEPT
                                    !.urls = Append(@, processed_url),
                                    !.parameters = CountParams(@, kept)])

\* mutant: total_urls_with_params counts every fetched URL
_calculate_final_stats_of_fetched(res) ==
    [res EXCEPT !.stats =
        Update(Update(@, "total_urls_with_params",
                      Get(res.stats, "total_urls_fetched")),
               "unique_parameters", Cardinality(DOMAIN res.parameters))]

\* _calculate_final_stats, lines 171-178 (the two wall-clock values are
\* left out)
_calculate_final_stats(res) ==
    [res EXCEPT !.stats =
        Update(Update(@, "total_urls_with_params", Len(res.urls)),
               "unique_parameters", Cardinality(DOMAIN res.parameters))]

\* run, lines 61-68
ProcessAndReturn ==
    /\ pipePc = "process"
    /\ results' = _calculate_final_stats(_process_urls(total_urls, results))
    /\ pipePc' = "returned"
    /\ UNCHANGED <<libVars, crawlVars, mgrVars, domains, domIdx, srcIdx, domain_urls,
                   total_urls, discovered_sitemaps, callLog>>

\* a file named on the command line: open() succeeds ("ok"), raises
\* FileNotFoundError ("missing") or another OSError ("denied")
File(status, lines) == [given |-> TRUE, status |-> status, lines |-> lines]

NoFile == [given |-> FALSE, status |-> "missing", lines |-> <<>>]

BaseArgs ==
    [has_crawl_pages |-> TRUE, crawl_pages |-> 1, crawl_depth |-> 0,
     max_urls |-> DefaultMaxUrls, domain |-> Domain, list |-> NoFile,
     sources |-> <<"all">>, no_filter |-> FALSE, placeholder |-> <<"FUZZ">>,
     custom_filter |-> {}, boring_list |-> NoFile]

\* the command lines of the runs
PipeArgs ==
    { BaseArgs,
      [BaseArgs EXCEPT !.no_filter = TRUE],
      [BaseArgs EXCEPT !.domain = <<"HTTPS://", "Example", ".", "com", "/", "x">>,
                       !.sources = <<"wayback", ",", "javascript", ",", "sitemap">>],
      [BaseArgs EXCEPT !.domain = <<>>,
                       !.list = File("ok", <<Domain, <<>>, Other, Domain>>),
                       !.sources = <<"sitemap", ",", "crawl">>],
      [BaseArgs EXCEPT !.domain = <<>>, !.list = File("missing", <<>>)],
      [BaseArgs EXCEPT !.sources = <<"wayback">>,
                       !.boring_list = File("ok", << <<"Q">>, <<"#", "note">>,
                                                     <<>>, <<"id">> >>)],
      [BaseArgs EXCEPT !.sources = <<"wayback">>,
                       !.boring_list = File("missing", <<>>)],
      [BaseArgs EXCEPT !.sources = <<"wayback">>,
                       !.boring_list = File("denied", <<>>)],
      [BaseArgs EXCEPT !.domain = <<"localhost">>],
      [BaseArgs EXCEPT !.sources = <<"crawl">>, !.crawl_pages = 2,
                       !.crawl_depth = 1],
      [BaseArgs EXCEPT !.sources = <<"wayback">>, !.max_urls = 1],
      [BaseArgs EXCEPT !.sources = <<"js", ",", "crawl">>,
                       !.has_crawl_pages = FALSE] }

PipelineInit ==
    /\ args \in PipeArgs
    /\ tasks = <<>>
    /\ visited_urls = {}
    /\ discovered_urls = <<>>
    /\ requested = EmptyBag
    /\ mainpc = "idle"
    /\ seedIdx = 0
    /\ crawlResult = {}
    /\ crawl_domain = <<>>
    /\ MgrIdle
    /\ pipePc = "new"
    /\ domains = <<>>
    /\ domIdx = 0
    /\ srcIdx = 0
    /\ domain_urls = <<>>
    /\ total_urls = <<>>
    /\ results = <<>>
    /\ discovered_sitemaps = {}
    /\ callLog = <<>>
    /\ ScanIdle
    /\ TestIdle
    /\ SmartIdle
    /\ SiteIdle

PipelineNext ==
    \/ Construct
    \/ RunBegin
    \/ FetchUnknown
    \/ FetchWayback
    \/ FetchSitemap
    \/ FetchJs
    \/ CrawlCall
    \/ CrawlReturn
    \/ DomainDone
    \/ ProcessAndReturn
    \/ CrawlNext

PipelineSpec == PipelineInit /\ [][PipelineNext]_vars

----------------------------------------------------------------------------
(* SpiderXCore (spiderx/core.py): the scan core behind the web API.  A URL  *)
(* of the archive is a record of urlparse's components; port 0 stands for   *)
(* a netloc without a port.                                                  *)

ScanUrl(scheme, netloc, port, path, query) ==
    [scheme |-> scheme, netloc |-> netloc, port |-> port, path |-> path,
     query |-> query]

\* lines 18-23
hardcoded_extensions ==
    {".jpg", ".jpeg", ".png", ".gif", ".pdf", ".svg", ".json", ".css", ".js",
     ".webp", ".woff", ".woff2", ".eot", ".ttf", ".otf", ".mp4", ".txt",
     ".xml", ".ico", ".zip", ".rar", ".tar", ".gz", ".exe", ".dmg", ".pkg",
     ".deb", ".rpm"}

\* os.path.splitext(path)[1]: the last token of the path when it is an
\* extension
splitext_ext(path) ==
    IF path = <<>> THEN ""
    ELSE LET last == path[Len(path)]
         IN  IF Lower(last) \in hardcoded_extensions \cup {".php", ".html"}
             THEN last ELSE ""

\* has_extension, utils.py lines 270-279
has_extension(url, extensions) == Lower(splitext_ext(url.path)) \in extensions

\* clean_url, utils.py lines 257-267
clean_url(url) ==
    IF \/ url.port = 80 /\ url.scheme = "http"
       \/ url.port = 443 /\ url.scheme = "https"
    THEN [url EXCEPT !.port = 0]
    ELSE url

\* parse_qs(query) without keep_blank_values: the names that have a value
parse_qs_keys(query) ==
    LET valued == SelectSeq(parse_qsl(QueryStr(query)),
                            LAMBDA pair : pair.value # <<>>)
    IN  DictKeys([i \in DOMAIN valued |-> valued[i].name])

\* urlencode(cleaned_params, doseq=True)
urlencode(parameters, placeholder) ==
    [i \in DOMAIN parameters |->
        P(quote_plus(parameters[i]), quote_plus(placeholder))]

\* _process_url, lines 120-155: no record (None) or one URLInfo
_process_url(url, domain, placeholder, extensions) ==
    IF extensions # {} /\ has_extension(url, extensions) THEN <<>>
    ELSE LET cleaned == clean_url(url)
             parameters == parse_qs_keys(cleaned.query)
             cleaned_url ==
                 IF placeholder # <<>> /\ placeholder # <<"FUZZ">>
                 THEN [cleaned EXCEPT !.query = urlencode(parameters, placeholder)]
                 ELSE cleaned
         IN  IF parameters = <<>> THEN <<>>
             ELSE << [url |-> url, domain |-> domain, parameters |-> parameters,
                      parameter_count |-> Len(parameters),
                      cleaned_url |-> cleaned_url] >>

\* the lines the archive's index holds for a domain
ScanLines(domain) == <<
    ScanUrl("https", domain, 443, <<"/search">>,
            << P(<<"q">>, <<"1">>), P(<<"lang">>, <<>>) >>),
    ScanUrl("http", domain, 0, <<"/app", ".JS">>, << P(<<"v">>, <<"2">>) >>),
    ScanUrl("http", domain, 0, <<"/about">>, <<>>),
    ScanUrl("https", domain, 8443, <<"/item">>,
            << P(<<"id">>, <<"7">>), P(<<"tag", "%5B", "%5D">>, <<"a">>),
               P(<<"id">>, <<"8">>) >>) >>

\* _fetch_domain_urls, lines 89-118
_fetch_domain_urls(domain, request, extensions, outcome) ==
    IF outcome # "ok" THEN <<>>
    ELSE LET raw_urls == Take(ScanLines(domain), request.max_urls_per_domain)
         IN  FlattenSeq([i \in DOMAIN raw_urls |->
                 _process_url(raw_urls[i], domain, request.placeholder,
                              extensions)])

\* ScanResult, models.py lines 29-41
NewScanResult(domains_scanned) ==
    [status |-> "running", completed_at |-> "None",
     domains_scanned |-> domains_scanned, total_urls_found |-> 0,
     urls_with_parameters |-> 0, unique_parameters |-> {},
     domain_stats |-> <<>>, urls |-> <<>>, error_message |-> "None",
     progress |-> 0]

\* scan_domains, lines 25-33
ScanDomains ==
    /\ scanPc = "idle"
    /\ scan_result' = NewScanResult(scan_request.domains)
    /\ scanPc' = "scheduled"
    /\ UNCHANGED <<crawlVars, mgrVars, pipeVars, testVars, smartVars, siteVars, scan_request, scanIdx,
                   scan_all_urls>>

\* the results are stored and the status set, without the time of completion
FinalizeWithoutTime(res, urls) ==
    [res EXCEPT !.urls = urls, !.total_urls_found = Len(urls),
                !.status = "completed", !.progress = 100]

\* _perform_scan, lines 77-83
Finalize(res, urls) ==
    [res EXCEPT
        !.urls = urls,
        !.total_urls_found = Len(urls),
        !.urls_with_parameters =
            Cardinality({i \in DOMAIN urls : urls[i].parameters # <<>>}),
        !.unique_parameters =
            UNION {SeqToSet(urls[i].parameters) : i \in DOMAIN urls},
        !.status = "completed",
        !.completed_at = "now",
        !.progress = 100]

\* line 49
Progress(i) == (i * 100) \div Len(scan_request.domains)

\* line 41
Extensions ==
    IF scan_request.filter_extensions
    THEN IF scan_request.custom_extensions # {}
         THEN scan_request.custom_extensions ELSE hardcoded_extensions
    ELSE {}

\* _perform_scan, lines 37-52: up to the first await
PerformScanBegin ==
    /\ scanPc = "scheduled"
    /\ IF scan_request.domains = <<>>
       THEN /\ scan_result' = Finalize([scan_result EXCEPT !.status = "running"], <<>>)
            /\ scanPc' = "done"
            /\ scanIdx' = 0
       ELSE /\ scan_result' = [scan_result EXCEPT !.status = "running",
                                                  !.progress = Progress(0)]
            /\ scanPc' = "fetching"
            /\ scanIdx' = 1
    /\ scan_all_urls' = <<>>
    /\ UNCHANGED <<crawlVars, mgrVars, pipeVars, testVars, smartVars, siteVars, scan_request>>

\* lines 60-71
DomainStats(domain, urls_info) ==
    [domain |-> domain, total_urls_found |-> Len(urls_info),
     urls_with_parameters |->
         Cardinality({i \in DOMAIN urls_info :
                         urls_info[i].parameters # <<>>}),
     unique_parameters |->
         UNION {SeqToSet(urls_info[i].parameters) : i \in DOMAIN urls_info}]

\* _perform_scan, lines 52-83: from the return of _fetch_domain_urls to the
\* next await or the end
FetchDomainReturn ==
    /\ scanPc = "fetching"
    /\ \E outcome \in NetOutcomes :
          LET domain == scan_request.domains[scanIdx]
              fetched == _fetch_domain_urls(domain, scan_request, Extensions,
                                            outcome)
              urls == scan_all_urls \o fetched
              res == [scan_result EXCEPT
                         !.domain_stats = Append(@, DomainStats(domain, fetched))]
          IN  /\ scan_all_urls' = urls
              /\ IF scanIdx < Len(scan_request.domains)
                 THEN /\ scan_result' = [res EXCEPT !.progress = Progress(scanIdx)]
                      /\ scanIdx' = scanIdx + 1
                      /\ scanPc' = "fetching"
                 ELSE /\ scan_result' = Finalize(res, urls)
                      /\ scanPc' = "done"
                      /\ UNCHANGED scanIdx
    /\ UNCHANGED <<crawlVars, mgrVars, pipeVars, testVars, smartVars, siteVars, scan_request>>

\* ScanRequest, models.py lines 6-13
ScanRequests ==
    [domains : {<<>>, <<Domain>>, <<Domain, Other>>},
     placeholder : {<<"FUZZ">>, <<"XSS">>, <<"<", "x", ">">>, <<>>},
     filter_extensions : BOOLEAN,
     custom_extensions : {{}, {".html"}},
     max_urls_per_domain : {1, 10000}]

ScanInit ==
    /\ scan_request \in ScanRequests
    /\ scan_result = <<>>
    /\ scanPc = "idle"
    /\ scanIdx = 0
    /\ scan_all_urls = <<>>
    /\ CrawlerIdle
    /\ MgrIdle
    /\ PipeIdle
    /\ TestIdle
    /\ SmartIdle
    /\ SiteIdle

ScanNext ==
    \/ ScanDomains
    \/ PerformScanBegin
    \/ FetchDomainReturn

ScanSpec == ScanInit /\ [][ScanNext]_vars

\* the event loop runs the task scan_domains created, and every request of
\* _fetch_domain_urls returns or fails
ScanFairSpec == ScanSpec /\ WF_vars(ScanNext)

----------------------------------------------------------------------------
(* The ParameterFilter used on its own, as test_filter does                 *)
(* (test_spiderx.py lines 44-65): a filter is built from the arguments and  *)
(* a URL goes through extract_parameters, filter_parameters and             *)
(* create_cleaned_url.                                                      *)

MaxParams == 3

\* parameter names of the URLs, in several letter cases
TestNames ==
    { <<"q">>, <<"Q">>, <<"Format">>, <<"id">>, <<"UTM", "_", "x">>,
      <<"my", "_", "ref">>, <<"session", "id">>, <<"x", "_", "ref", "s">>,
      <<"a", "%26", "b">> }

\* the queries of at most n pairs
RECURSIVE TestQueries(_)
TestQueries(n) ==
    IF n = 0 THEN { <<>> }
    ELSE LET shorter == TestQueries(n - 1)
         IN  shorter \cup {Append(query, P(name, <<"v">>)) :
                              query \in shorter, name \in TestNames}

\* lines 52-56
test_urls ==
    {Url(Domain, <<"/search">>, query) : query \in TestQueries(MaxParams)}
        \cup {U_users(Domain), U_search(Domain),
              Url(<<"[", "::1">>, <<"/">>, << P(<<"q">>, <<"v">>) >>)}

\* the placeholder of line 61 and another one
TestPlaceholders == { <<"FUZZ">>, <<"XSS">> }

\* SimpleArgs, lines 12-20, and two filters with names of the caller
TestArgs ==
    { BaseArgs,
      [BaseArgs EXCEPT !.custom_filter = { <<"id">> }],
      [BaseArgs EXCEPT !.custom_filter = { <<"Q">> }],
      [BaseArgs EXCEPT !.boring_list = File("ok", << <<"Q">>, <<"#", "note">> >>)] }

\* line 59
ExtractParameters ==
    /\ testPc = "start"
    /\ test_params' = extract_parameters(test_url)
    /\ testPc' = "extracted"
    /\ UNCHANGED <<crawlVars, mgrVars, pipeVars, scanVars, smartVars, siteVars, test_url,
                   test_filtered, test_cleaned, test_placeholder, test_again>>

\* line 60
FilterParameters ==
    /\ testPc = "extracted"
    /\ test_filtered' = filter_parameters(test_params)
    /\ testPc' = "filtered"
    /\ UNCHANGED <<crawlVars, mgrVars, pipeVars, scanVars, smartVars, siteVars, test_url,
                   test_params, test_cleaned, test_placeholder, test_again>>

\* line 61
CreateCleanedUrl ==
    /\ testPc = "filtered"
    /\ test_cleaned' = create_cleaned_url(test_url, test_filtered,
                                          test_placeholder)
    /\ testPc' = "cleaned"
    /\ UNCHANGED <<crawlVars, mgrVars, pipeVars, scanVars, smartVars, siteVars, test_url,
                   test_params, test_filtered, test_placeholder, test_again>>

\* lines 59-61 once more, on the cleaned URL
Reapply ==
    /\ testPc = "cleaned"
    /\ test_again' =
          create_cleaned_url(test_cleaned,
                             filter_parameters(extract_parameters(test_cleaned)),
                             test_placeholder)
    /\ testPc' = "reapplied"
    /\ UNCHANGED <<crawlVars, mgrVars, pipeVars, scanVars, smartVars, siteVars, test_url,
                   test_params, test_filtered, test_cleaned, test_placeholder>>

FilterInit ==
    /\ args \in TestArgs
    /\ test_url \in test_urls
    /\ test_params = <<>>
    /\ test_filtered = <<>>
    /\ test_cleaned = <<>>
    /\ test_placeholder \in TestPlaceholders
    /\ test_again = <<>>
    /\ testPc = "start"
    /\ tasks = <<>>
    /\ visited_urls = {}
    /\ discovered_urls = <<>>
    /\ requested = EmptyBag
    /\ mainpc = "idle"
    /\ seedIdx = 0
    /\ crawlResult = {}
    /\ crawl_domain = <<>>
    /\ MgrIdle
    /\ PipeIdle
    /\ ScanIdle
    /\ SmartIdle
    /\ SiteIdle

FilterNext ==
    \/ ExtractParameters
    \/ FilterParameters
    \/ CreateCleanedUrl
    \/ Reapply

FilterSpec == FilterInit /\ [][FilterNext]_vars

----------------------------------------------------------------------------
(* AdvancedFiltering (spiderx/advanced_features.py): filtering with         *)
(* confidence scores.  A score is kept in hundredths (0.95 is 95).  A name  *)
(* is a sequence of tokens cut so that every pattern matches whole tokens.  *)

MaxSmartParams == 3

\* the number of characters of a token
TokenLen ==
    ("search" :> 6) @@ ("query" :> 5) @@ ("user" :> 4) @@ ("name" :> 4)
    @@ ("id" :> 2) @@ ("utm" :> 3) @@ ("source" :> 6) @@ ("sess" :> 4)
    @@ ("ion" :> 3) @@ ("x" :> 1) @@ ("api" :> 3) @@ ("key" :> 3)
    @@ ("User" :> 4) @@ ("Token" :> 5) @@ ("_" :> 1) @@ ("-" :> 1)

\* len(param)
RECURSIVE StrLen(_)
StrLen(s) == IF s = <<>> THEN 0 ELSE TokenLen[Head(s)] + StrLen(Tail(s))

\* the lower-case form of the tokens written with capitals
SmartLower(s) ==
    [i \in DOMAIN s |-> IF s[i] = "User" THEN "user"
                        ELSE IF s[i] = "Token" THEN "token" ELSE s[i]]

\* the parameter names handed to the filter
SmartNames ==
    { <<"search">>, <<"search", "_", "query">>, <<"user", "name">>, <<"id">>,
      <<"utm", "_", "source">>, <<"sess", "ion", "id">>, <<"x">>,
      <<"api", "-", "key">>, <<"User", "Token">>, <<"_">> }

\* lines 142-164: the confidence of every boring pattern that matches
BoringConfidences(param) ==
    LET p == SmartLower(param)
    IN  (IF StartsWith(p, <<"utm", "_">>) THEN {95} ELSE {})
        \cup (IF StartsWith(p, <<"ga", "_">>) THEN {95} ELSE {})
        \cup (IF StartsWith(p, <<"_", "ga">>) THEN {95} ELSE {})
        \cup (IF Contains(p, <<"tracking">>) THEN {90} ELSE {})
        \cup (IF Contains(p, <<"analytics">>) THEN {90} ELSE {})
        \cup (IF StartsWith(p, <<"sess", "ion">>) THEN {90} ELSE {})
        \cup (IF Contains(p, <<"sess">>) THEN {85} ELSE {})
        \cup (IF p = <<"sid">> THEN {90} ELSE {})
        \cup (IF StartsWith(p, <<"cache">>) THEN {85} ELSE {})
        \cup (IF p # <<>> /\ \A i \in DOMAIN p : p[i] = "_" THEN {90} ELSE {})
        \cup (IF p \in {<<"ts">>, <<"timestamp">>} THEN {85} ELSE {})
        \cup (IF p \in {<<"v">>, <<"version">>} THEN {80} ELSE {})
        \cup (IF p \in {<<"ref">>, <<"referrer">>} THEN {80} ELSE {})
        \cup (IF p \in {<<"fbclid">>, <<"gclid">>} THEN {95} ELSE {})
        \cup (IF StartsWith(p, <<"share">>) THEN {75} ELSE {})

\* lines 167-178: the confidence of every interesting pattern that matches
InterestingConfidences(param) ==
    LET p == SmartLower(param)
    IN  (IF Contains(p, <<"search">>) THEN {95} ELSE {})
        \cup (IF Contains(p, <<"query">>) THEN {95} ELSE {})
        \cup (IF Contains(p, <<"admin">>) THEN {90} ELSE {})
        \cup (IF Contains(p, <<"user">>) THEN {85} ELSE {})
        \cup (IF EndsWith(p, <<"id">>) THEN {80} ELSE {})
        \cup (IF Contains(p, <<"key">>) THEN {90} ELSE {})
        \cup (IF Contains(p, <<"token">>) THEN {90} ELSE {})
        \cup (IF Contains(p, <<"auth">>) THEN {90} ELSE {})
        \cup (IF Contains(p, <<"file">>) THEN {85} ELSE {})
        \cup (IF Contains(p, <<"path">>) THEN {85} ELSE {})

\* max(max_score, confidence) over the matches, from 0.0
MaxOf(S) == IF S = {} THEN 0 ELSE CHOOSE m \in S : \A n \in S : n <= m

\* _calculate_boring_score, lines 212-220
_calculate_boring_score(param) == MaxOf(BoringConfidences(param))

\* _calculate_interesting_score, lines 222-236
_calculate_interesting_score(param) ==
    MaxOf(InterestingConfidences(param))
        + (IF StrLen(param) > 6 THEN 10 ELSE 0)
        + (IF "_" \in SeqToSet(param) \/ "-" \in SeqToSet(param) THEN 5 ELSE 0)

\* _record_filter_reason, lines 238-245
FilterReason(boring_score) ==
    IF boring_score > 90 THEN "high_confidence_boring"
    ELSE IF boring_score > 70 THEN "medium_confidence_boring"
    ELSE "low_interesting_score"

\* smart_filter_parameters, lines 183-190
SmartBegin ==
    /\ smartPc = "start"
    /\ smart_todo' = smart_params
    /\ smart_filtered' = {}
    /\ filtering_stats' =
          [total_params |-> Cardinality(smart_params), filtered_out |-> 0,
           kept_params |-> 0, confidence_scores |-> <<>>,
           filter_reasons |-> <<>>]
    /\ smartPc' = "loop"
    /\ UNCHANGED <<crawlVars, mgrVars, pipeVars, scanVars, testVars, siteVars,
                   smart_params, smart_threshold, smart_scores>>

\* smart_filter_parameters, lines 192-207: one round of the loop over the
\* set, in whatever order the set yields its elements
SmartStep ==
    /\ smartPc = "loop"
    /\ \E param \in smart_todo :
          LET boring_score == _calculate_boring_score(param)
              interesting_score == _calculate_interesting_score(param)
              final_score == interesting_score - boring_score
              scored == [filtering_stats EXCEPT
                            !.confidence_scores = (param :> final_score) @@ @]
          IN  /\ smart_scores' =
                    (param :> [boring |-> boring_score,
                               interesting |-> interesting_score])
                    @@ smart_scores
              /\ IF final_score >= smart_threshold
                 THEN /\ smart_filtered' = smart_filtered \cup {param}
                      /\ filtering_stats' =
                            [scored EXCEPT !.kept_params = @ + 1]
                 ELSE /\ UNCHANGED smart_filtered
                      /\ filtering_stats' =
                            [scored EXCEPT
                                !.filtered_out = @ + 1,
                                !.filter_reasons =
                                    LET reason == FilterReason(boring_score)
                                    IN  (reason :>
                                            (IF reason \in DOMAIN @
                                             THEN Append(@[reason], param)
                                             ELSE <<param>>)) @@ @]
              /\ smart_todo' = smart_todo \ {param}
    /\ UNCHANGED <<crawlVars, mgrVars, pipeVars, scanVars, testVars, siteVars,
                   smart_params, smart_threshold, smartPc>>

\* smart_filter_parameters, line 209
SmartReturn ==
    /\ smartPc = "loop"
    /\ smart_todo = {}
    /\ smartPc' = "returned"
    /\ UNCHANGED <<crawlVars, mgrVars, pipeVars, scanVars, testVars, siteVars,
                   smart_params, smart_threshold, smart_todo, smart_filtered,
                   filtering_stats, smart_scores>>

SmartInit ==
    /\ smart_params \in {S \in SUBSET SmartNames : Cardinality(S) <= MaxSmartParams}
    /\ smart_threshold = 70
    /\ smart_todo = {}
    /\ smart_filtered = {}
    /\ filtering_stats = <<>>
    /\ smart_scores = <<>>
    /\ smartPc = "start"
    /\ CrawlerIdle
    /\ MgrIdle
    /\ PipeIdle
    /\ ScanIdle
    /\ TestIdle
    /\ SiteIdle

SmartNext ==
    \/ SmartBegin
    \/ SmartStep
    \/ SmartReturn

SmartSpec == SmartInit /\ [][SmartNext]_vars

----------------------------------------------------------------------------
(* One SitemapSource instance asked several times for the same domain, the  *)
(* server answering every request the same way each time.                   *)

MaxSiteCalls == 2

\* SitemapSource.fetch_urls(domain), lines 25-67
SitemapCall ==
    /\ Len(site_calls) < MaxSiteCalls
    /\ \E urls \in SitemapFetchUrls(Domain, site_responses) :
          site_calls' = Append(site_calls, urls)
    /\ discovered_sitemaps' =
          discovered_sitemaps \cup NewSitemaps(Domain, site_responses)
    /\ UNCHANGED <<crawlVars, mgrVars, scanVars, testVars, smartVars,
                   site_responses, pipePc, domains, domIdx, srcIdx,
                   domain_urls, total_urls, results, callLog>>

\* SitemapSource.__init__, lines 18-23
SitemapInit ==
    /\ args = BaseArgs
    /\ site_responses \in [SitemapRequests -> NetOutcomes]
    /\ site_calls = <<>>
    /\ tasks = <<>>
    /\ visited_urls = {}
    /\ discovered_urls = <<>>
    /\ requested = EmptyBag
    /\ mainpc = "idle"
    /\ seedIdx = 0
    /\ crawlResult = {}
    /\ crawl_domain = <<>>
    /\ MgrIdle
    /\ PipeIdle
    /\ ScanIdle
    /\ TestIdle
    /\ SmartIdle

SitemapNext == SitemapCall

SitemapSpec == SitemapInit /\ [][SitemapNext]_vars

----------------------------------------------------------------------------
(* Properties of one crawl run (CrawlSpec)                                  *)

\* the page_urls of every body on every host that can be fetched
ExtractTable ==
    [b \in DOMAIN PageBodies |->
        [n \in {Domain, Sub, Evil, Other} |->
            _extract_urls_from_html(PageBodies[b], Url(n, <<>>, <<>>), Domain)]]

\* the page_urls a task extracted from the body it received (relative
\* references resolve against the host of the page)
PageUrlsOf(t) ==
    IF t.body = 0 THEN <<>> ELSE ExtractTable[t.body][t.url.netloc]

Count(u, seq) == Cardinality({k \in DOMAIN seq : seq[k] = u})

\* everything the pages fetched so far yielded, in task order
AllPageUrls == FlattenSeq([i \in DOMAIN tasks |-> PageUrlsOf(tasks[i])])

\* the labels of a host name, and the hosts in the scope of the seed domain
RECURSIVE SplitLabels(_)
SplitLabels(s) ==
    IF s = <<>> THEN << <<>> >>
    ELSE LET rest == SplitLabels(Tail(s))
         IN  IF Head(s) = "." THEN << <<>> >> \o rest
             ELSE << <<Head(s)>> \o Head(rest) >> \o Tail(rest)

HostInScope(netloc) ==
    LET h == SplitLabels(netloc)
        d == SplitLabels(Domain)
    IN  /\ Len(h) >= Len(d)
        /\ SubSeq(h, Len(h) - Len(d) + 1, Len(h)) = d

\* C1: in one run of fetch_urls, under every interleaving of the gathered
\* child crawls, the number of URLs added to the visited set and the number
\* of requests issued never exceed max_pages.
C1_PageBudget ==
    /\ VisitedCount <= max_pages
    /\ BagCardinality(requested) <= max_pages

\* a page with more same-domain links than the budget was crawled: the
\* budget is used up and a child link was refused without being visited
C1_Witness ==
    /\ mainpc = "returned"
    /\ VisitedCount = max_pages
    /\ \E i, j \in DOMAIN tasks :
          /\ tasks[j].parent = i
          /\ tasks[i].body = 2
          /\ tasks[j].outcome = "skipped"
          /\ tasks[j].url \notin visited_urls

\* C2: within one run no URL is requested more than once: a URL enters the
\* visited set when it is requested and is never requested again, whatever
\* the interleaving of the tasks.
C2_NoRefetch ==
    /\ \A u \in BagToSet(requested) : CopiesIn(u, requested) = 1
    /\ BagToSet(requested) = visited_urls

\* two sibling tasks for the same link, one fetched and one refused while
\* budget was left, and a link back to the parent page refused
C2_Witness ==
    \E p, i, j, k \in DOMAIN tasks :
        /\ i # j
        /\ tasks[i].parent = p /\ tasks[j].parent = p /\ tasks[k].parent = p
        /\ tasks[i].url = tasks[j].url
        /\ Fetched(tasks[i])
        /\ tasks[j].outcome = "skipped"
        /\ tasks[k].url = tasks[p].url
        /\ tasks[k].outcome = "skipped"
        /\ VisitedCount < max_pages

\* C3: every URL the crawler visits, requests or creates a child crawl for
\* has a host that is the seed domain or a subdomain of it.
C3_SameDomainOnly ==
    /\ \A u \in visited_urls : HostInScope(u.netloc)
    /\ \A u \in BagToSet(requested) : HostInScope(u.netloc)
    /\ \A i \in DOMAIN tasks : HostInScope(tasks[i].url.netloc)

\* a page linking to a subdomain, a look-alike domain and foreign domains
\* had its links followed: the subdomain was visited
C3_Witness ==
    \E i, j \in DOMAIN tasks :
        /\ tasks[i].body = 3
        /\ tasks[i].pc = "done"
        /\ tasks[j].parent = i
        /\ tasks[j].url.netloc = Sub
        /\ tasks[j].url \in visited_urls

\* C7: a failed page fetch (exception, non-200 status, non-HTML content)
\* leaves the URL in the visited set, is never retried, adds nothing to the
\* discovered URLs, does not make fetch_urls raise, and does not stop the
\* crawl: when fetch_urls returns every task has finished and every seed
\* and every link that was not fetched was already visited or met a used-up
\* page budget.
C7_FetchFailureIsolated ==
    /\ [](/\ mainpc # "raised"
          /\ \A i \in DOMAIN tasks :
                tasks[i].outcome \in FailureOutcomes =>
                    /\ tasks[i].url \in visited_urls
                    /\ CopiesIn(tasks[i].url, requested) = 1
                    /\ tasks[i].body = 0)
    /\ [][\A i \in DOMAIN tasks :
             (tasks[i].outcome = "none" /\ tasks'[i].outcome \in FailureOutcomes)
                 => /\ discovered_urls' = discovered_urls
                    /\ visited_urls' = visited_urls
                    /\ Len(tasks') = Len(tasks)]_vars
    /\ [](mainpc = "returned" /\ ~CrawlingDisabled =>
             /\ \A i \in DOMAIN tasks : tasks[i].pc = "done"
             /\ \A k \in DOMAIN start_urls(Domain) :
                   start_urls(Domain)[k] \in visited_urls \/ VisitedCount >= max_pages
             /\ \A i \in DOMAIN tasks :
                   tasks[i].outcome = "skipped" =>
                       tasks[i].url \in visited_urls \/ VisitedCount >= max_pages)

\* the fetch of one link failed and a sibling link created after it was
\* fetched successfully; the run returned
C7_Witness ==
    /\ mainpc = "returned"
    /\ \E i, j \in DOMAIN tasks :
          /\ i < j
          /\ tasks[i].parent # 0
          /\ tasks[i].parent = tasks[j].parent
          /\ tasks[i].outcome \in FailureOutcomes
          /\ tasks[j].outcome = "ok"

\* C8: no update of the shared crawl state is lost: every URL occurs in the
\* discovered-URL accumulator exactly as often as the pages fetched
\* successfully yielded it, and every requested URL is in the visited set.
C8_NoLostUpdate ==
    /\ LET all == AllPageUrls
       IN  /\ Len(all) = Len(discovered_urls)
           /\ \A u \in SeqToSet(all) : Count(u, all) = Count(u, discovered_urls)
    /\ \A i \in DOMAIN tasks : Fetched(tasks[i]) => tasks[i].url \in visited_urls

\* two sibling crawls and their parent each yielded URLs; the run returned
C8_Witness ==
    /\ mainpc = "returned"
    /\ \E i, j \in DOMAIN tasks :
          /\ i # j
          /\ tasks[i].parent # 0
          /\ tasks[i].parent = tasks[j].parent
          /\ PageUrlsOf(tasks[i]) # <<>>
          /\ PageUrlsOf(tasks[j]) # <<>>
          /\ PageUrlsOf(tasks[tasks[i].parent]) # <<>>

\* C9: seeds have depth 0, a child crawl is created only for the links of a
\* page whose depth is strictly less than max_depth and has its parent's
\* depth plus one, so no URL is fetched at a depth greater than max_depth.
C9_DepthBound ==
    \A i \in DOMAIN tasks :
        /\ tasks[i].parent = 0 => tasks[i].depth = 0
        /\ tasks[i].parent # 0 =>
              /\ tasks[tasks[i].parent].depth < max_depth
              /\ tasks[i].depth = tasks[tasks[i].parent].depth + 1
        /\ Fetched(tasks[i]) => tasks[i].depth <= max_depth

\* a page at depth max_depth >= 1 with same-domain links was fetched with
\* budget left, and none of its links was followed
C9_Witness ==
    \E i \in DOMAIN tasks :
        /\ max_depth >= 1
        /\ tasks[i].depth = max_depth
        /\ tasks[i].body = 1
        /\ tasks[i].pc = "done"
        /\ Children(i) = {}
        /\ VisitedCount < max_pages

\* C10: given that every fetch completes or fails, fetch_urls eventually
\* returns, and it returns with no crawl task pending and either the page
\* budget used up or every start URL visited.
C10_Terminates ==
    /\ <>(mainpc = "returned")
    /\ [](mainpc = "returned" /\ ~CrawlingDisabled =>
             /\ \A i \in DOMAIN tasks : tasks[i].pc = "done"
             /\ \/ VisitedCount >= max_pages
                \/ \A k \in DOMAIN start_urls(Domain) :
                      start_urls(Domain)[k] \in visited_urls)

\* a run over a cyclic link graph returned at the page budget
C10_Witness ==
    /\ mainpc = "returned"
    /\ VisitedCount = max_pages
    /\ \E i, k \in DOMAIN tasks :
          /\ tasks[k].parent = i
          /\ tasks[k].url = tasks[i].url

\* a run returned with budget left: the frontier was exhausted
C10_FrontierExhausted ==
    /\ mainpc = "returned"
    /\ ~CrawlingDisabled
    /\ VisitedCount < max_pages

----------------------------------------------------------------------------
(* Properties of fetch_from_all_sources (ManagerSpec)                       *)

\* C4: whatever subset of the sources raises, fetch_from_all_sources returns
\* normally with an entry for every registered source: the empty list for a
\* source that raised, and for any other source exactly the records of the
\* URLs it returned; every task has run to its end.
C4_SourceFailureIsolated ==
    /\ mgrPc # "raised"
    /\ mgrPc = "returned" =>
          /\ DOMAIN mgrResults = Registered
          /\ \A s \in Registered :
                mgrResults[s] = IF fetchOutcome[s].raises THEN <<>>
                                ELSE Enrich(fetchOutcome[s].urls, Domain, s)
          /\ \A i \in DOMAIN srcTasks : srcTasks[i].pc = "done"

\* the call returned although the second source raised, with the records of
\* the sources before and after it
C4_Witness ==
    /\ mgrPc = "returned"
    /\ fetchOutcome["sitemap"].raises
    /\ mgrResults["wayback"] # <<>>
    /\ mgrResults["sitemap"] = <<>>
    /\ mgrResults["js"] # <<>>

----------------------------------------------------------------------------
(* Properties of a pipeline run (PipelineSpec)                              *)

\* source_stats[source_name][key], read as the defaultdict gives it
SourceStat(res, source_name, key) ==
    IF source_name \in DOMAIN res.source_stats
    THEN Get(res.source_stats[source_name], key) ELSE 0

LogOf(source_name) == SelectSeq(callLog, LAMBDA e : e.source = source_name)

RECURSIVE SumCount(_)
SumCount(log) == IF log = <<>> THEN 0 ELSE Head(log).count + SumCount(Tail(log))

\* the call of fetch_from_source that this step completes raised
FetchFails ==
    /\ Len(callLog') = Len(callLog) + 1
    /\ callLog'[Len(callLog')].raised

\* C5: in _process_domain, whenever the call of fetch_from_source for an
\* enabled source raises, the errors counter of that source grows by exactly
\* one, its total_urls, the global total_urls_fetched and the URLs collected
\* so far stay as they were, and the loop goes on to the next source; at the
\* end of the run every enabled source was called once for every domain, in
\* order, and the counters and the collected list are the sums over all the
\* calls.
C5_SourceErrorCounted ==
    /\ [][FetchFails =>
             LET s == callLog'[Len(callLog')].source
             IN  /\ SourceStat(results', s, "errors")
                       = SourceStat(results, s, "errors") + 1
                 /\ SourceStat(results', s, "total_urls")
                       = SourceStat(results, s, "total_urls")
                 /\ \A o \in DOMAIN results.source_stats :
                       o # s => results'.source_stats[o] = results.source_stats[o]
                 /\ results'.stats = results.stats
                 /\ domain_urls' = domain_urls
                 /\ total_urls' = total_urls
                 /\ srcIdx' = srcIdx + 1
                 /\ pipePc' = "sources"]_vars
    /\ [](pipePc \in {"process", "returned"} =>
             LET enabled == _get_enabled_sources
                 n == Len(enabled)
             IN  /\ Len(callLog) = Len(domains) * n
                 /\ \A k \in DOMAIN callLog :
                       /\ callLog[k].source = enabled[((k - 1) % n) + 1]
                       /\ callLog[k].domain = domains[((k - 1) \div n) + 1]
                 /\ \A s \in SeqToSet(enabled) :
                       /\ SourceStat(results, s, "errors")
                             = Len(SelectSeq(LogOf(s), LAMBDA e : e.raised))
                       /\ SourceStat(results, s, "total_urls") = SumCount(LogOf(s))
                 /\ Len(total_urls) = SumCount(callLog)
                 /\ Get(results.stats, "total_urls_fetched") = SumCount(callLog))

\* the second of three enabled sources raised; the run returned with one
\* error counted for it and with URLs of the source after it in its results
C5_Witness ==
    /\ pipePc = "returned"
    /\ Len(callLog) = 3
    /\ callLog[2].raised
    /\ SourceStat(results, callLog[2].source, "errors") = 1
    /\ callLog[1].count > 0
    /\ callLog[3].count > 0
    /\ \E k \in DOMAIN results.urls : results.urls[k].source = callLog[3].source

\* every request of every call failed, and at least one request was made
AllSourcesDown ==
    /\ callLog # <<>>
    /\ \A k \in DOMAIN callLog :
          ~callLog[k].raised /\ callLog[k].made /\ callLog[k].failed

\* C6: a run in which every network operation of every source fails for
\* every domain does not raise; it returns zero URLs and per-source
\* statistics with a non-zero error count for every source that failed.
C6_FailuresShownInStats ==
    /\ AllSourcesDown => pipePc # "raised"
    /\ pipePc = "returned" /\ AllSourcesDown =>
          /\ results.urls = <<>>
          /\ Get(results.stats, "total_urls_fetched") = 0
          /\ \A k \in DOMAIN callLog :
                SourceStat(results, callLog[k].source, "errors") > 0

\* the run returned after every request failed: no URL, and no error counted
C6_SilentFailure ==
    /\ pipePc = "returned"
    /\ AllSourcesDown
    /\ Len(callLog) = Len(SourceNames)
    /\ results.urls = <<>>
    /\ \A s \in SeqToSet(SourceNames) :
          /\ SourceStat(results, s, "total_urls") = 0
          /\ SourceStat(results, s, "errors") = 0

----------------------------------------------------------------------------
(* Properties of fetch_from_all_sources, continued (ManagerSpec)            *)

\* C11: from the moment fetch_from_all_sources awaits its first result there
\* is a task for every registered source; a task that was created can take
\* its first step whatever the other tasks do (slow, failed or finished);
\* and no result reaches the caller before every task has taken its first
\* step.
C11_AllStartedBeforeAwait ==
    /\ mgrPc \in {"await", "returned"} =>
          /\ Len(srcTasks) = Len(SourceNames)
          /\ \A i \in DOMAIN srcTasks : srcTasks[i].name = SourceNames[i]
    /\ \A i \in DOMAIN srcTasks :
          srcTasks[i].pc = "scheduled" => ENABLED SourceStart(i)
    /\ mgrIdx > 1 => \A i \in DOMAIN srcTasks : srcTasks[i].pc # "scheduled"

\* the first source awaited is still fetching and no result was delivered,
\* while a source that raises and the sources after it have run to their end
C11_Witness ==
    /\ mgrPc = "await"
    /\ mgrIdx = 1
    /\ srcTasks[1].pc = "fetching"
    /\ fetchOutcome[srcTasks[2].name].raises
    /\ \A i \in 2 .. Len(srcTasks) : srcTasks[i].pc = "done"

----------------------------------------------------------------------------
(* Properties of a pipeline run, continued (PipelineSpec)                   *)

\* the call of fetch_from_source that this step completes returned []
FetchReturnsEmpty ==
    /\ Len(callLog') = Len(callLog) + 1
    /\ ~callLog'[Len(callLog')].raised
    /\ callLog'[Len(callLog')].count = 0

\* C12: when a source returns the empty list for a domain, the source has an
\* entry in source_stats afterwards with total_urls set, its total_urls and
\* errors counts are what they were before (0 and 0 if this was its first
\* call), and the entries of all other sources are unchanged; a source that
\* only ever returned the empty list ends the run with total_urls 0 and
\* errors 0.
C12_EmptySourceNotAnError ==
    /\ [][FetchReturnsEmpty =>
             LET s == callLog'[Len(callLog')].source
             IN  /\ DOMAIN results'.source_stats = DOMAIN results.source_stats \cup {s}
                 /\ "total_urls" \in DOMAIN results'.source_stats[s]
                 /\ SourceStat(results', s, "total_urls")
                       = SourceStat(results, s, "total_urls")
                 /\ SourceStat(results', s, "errors")
                       = SourceStat(results, s, "errors")
                 /\ \A o \in DOMAIN results.source_stats :
                       o # s => results'.source_stats[o] = results.source_stats[o]]_vars
    /\ [](\A s \in {callLog[k].source : k \in DOMAIN callLog} :
             (\A k \in DOMAIN LogOf(s) :
                 ~LogOf(s)[k].raised /\ LogOf(s)[k].count = 0)
             => /\ s \in DOMAIN results.source_stats
                /\ SourceStat(results, s, "total_urls") = 0
                /\ SourceStat(results, s, "errors") = 0)

\* the sitemap source got answers but no URL, between two sources that
\* found URLs: it is registered with 0 and 0 and the others keep their counts
C12_Witness ==
    /\ pipePc = "returned"
    /\ Len(callLog) = Len(SourceNames)
    /\ callLog[2].source = "sitemap"
    /\ callLog[2].count = 0
    /\ ~callLog[2].failed
    /\ callLog[1].count > 0
    /\ callLog[3].count > 0
    /\ results.source_stats["sitemap"] = ("total_urls" :> 0)
    /\ SourceStat(results, "wayback", "total_urls") = callLog[1].count
    /\ SourceStat(results, "js", "total_urls") = callLog[3].count

\* a name among the enabled sources is not a registered source
UnknownSourceEnabled ==
    \E i \in DOMAIN _get_enabled_sources : _get_enabled_sources[i] \notin Registered

\* C13: a run whose enabled sources include a name that is not registered
\* raises; it never returns a normal result.
C13_UnknownSourceRaises == UnknownSourceEnabled => pipePc # "returned"

\* the run returned normally although one enabled name is not registered:
\* the ValueError was counted as one error of that name
C13_ReturnedDespiteUnknown ==
    /\ pipePc = "returned"
    /\ \E k \in DOMAIN callLog :
          /\ callLog[k].source \notin Registered
          /\ callLog[k].raised
          /\ results.source_stats[callLog[k].source] = ("errors" :> 1)

\* C14: when a boring-list file is configured and cannot be read, setting
\* up the filter fails: the pipeline object is never constructed with the
\* remaining boring names.
C14_UnreadableBoringListRaises ==
    args.boring_list.given /\ args.boring_list.status # "ok"
        => pipePc \in {"new", "setup_failed"}

\* a run with a boring-list file that does not exist returned a result,
\* filtered with the default names only
C14_MissingFileIgnored ==
    /\ pipePc = "returned"
    /\ args.boring_list.given
    /\ args.boring_list.status = "missing"
    /\ boring_params = default_boring_params
    /\ results.urls # <<>>

\* the processed URLs whose kept-parameter list contains the name
UrlsKeeping(res, name) ==
    {i \in DOMAIN res.urls : name \in SeqToSet(res.urls[i].parameters)}

\* the names the counter or a processed URL of the result mentions
NamesOf(res) ==
    DOMAIN res.parameters
        \cup UNION {SeqToSet(res.urls[i].parameters) : i \in DOMAIN res.urls}

\* the counters agree with the processed URLs
CountsMatch(res) ==
    \A name \in NamesOf(res) :
        /\ name \in DOMAIN res.parameters
        /\ res.parameters[name] = Cardinality(UrlsKeeping(res, name))

\* the result after the first k fetched URLs went through _process_urls
AfterUrls(k) == _process_urls(Take(total_urls, k), results)

\* C15: after a run the frequency count of every parameter name is the
\* number of processed URLs whose kept-parameter list contains the name,
\* and while the URLs are processed one after the other no count
\* decreases.
C15_CountsMatchProcessedUrls ==
    /\ pipePc = "returned" => CountsMatch(results)
    /\ pipePc = "process" =>
          \A k \in 1 .. Len(total_urls) :
              LET before == AfterUrls(k - 1).parameters
                  after == AfterUrls(k).parameters
              IN  /\ CountsMatch(AfterUrls(k))
                  /\ \A name \in DOMAIN before :
                        /\ name \in DOMAIN after
                        /\ after[name] >= before[name]

\* a returned run that counted one name for two URLs and processed a URL
\* whose query repeats a name
C15_Witness ==
    /\ pipePc = "returned"
    /\ \E name \in DOMAIN results.parameters : results.parameters[name] = 2
    /\ \E i \in DOMAIN results.urls :
          /\ Len(results.urls[i].original_url.query) >
                 Len(results.urls[i].parameters)
          /\ results.urls[i].parameters # <<>>
          /\ \A j \in DOMAIN results.urls[i].original_url.query :
                results.urls[i].original_url.query[j].name
                    \in SeqToSet(results.urls[i].parameters)

\* the names of a query in the order of their first occurrence
FirstOccurrences(query) ==
    LET first == {i \in DOMAIN query :
                     \A j \in 1 .. i - 1 : query[j].name # query[i].name}
        nth[k \in 0 .. Cardinality(first)] ==
            IF k = 0 THEN 0
            ELSE CHOOSE i \in first :
                    /\ i > nth[k - 1]
                    /\ \A j \in first : j > nth[k - 1] => j >= i
    IN  [k \in 1 .. Cardinality(first) |-> query[nth[k]].name]

\* sub is made of elements of s, without repetition, in the order of s
IsOrderedSubset(sub, s) ==
    \E pos \in [DOMAIN sub -> DOMAIN s] :
        /\ \A i \in DOMAIN sub : s[pos[i]] = sub[i]
        /\ \A i, j \in DOMAIN sub : i < j => pos[i] < pos[j]

\* the URL has a parameter that the run keeps
HasKeptParameter(url) ==
    \E i \in DOMAIN url.query : args.no_filter \/ ~IsBoring(url.query[i].name)

\* C16: every processed URL has a non-empty kept-parameter list made of
\* names of its original query in first-occurrence order, and a fetched
\* URL without parameters, or whose parameters are all filtered, yields no
\* processed URL.
C16_KeptParametersFromQuery ==
    pipePc = "returned" =>
        /\ \A i \in DOMAIN results.urls :
              /\ results.urls[i].parameters # <<>>
              /\ IsOrderedSubset(results.urls[i].parameters,
                       FirstOccurrences(results.urls[i].original_url.query))
        /\ [i \in DOMAIN results.urls |-> results.urls[i].original_url]
              = LET fetched == [k \in DOMAIN total_urls |-> total_urls[k].url]
                IN  SelectSeq(fetched, HasKeptParameter)

\* a returned run that kept two of a URL's three names, dropped a URL
\* whose names are all filtered and one without a query
C16_Witness ==
    /\ pipePc = "returned"
    /\ \E i \in DOMAIN results.urls :
          /\ Len(results.urls[i].parameters) = 2
          /\ Len(FirstOccurrences(results.urls[i].original_url.query)) = 3
    /\ \E k \in DOMAIN total_urls : total_urls[k].url.query = <<>>
    /\ \E k \in DOMAIN total_urls :
          /\ total_urls[k].url.query # <<>>
          /\ ~HasKeptParameter(total_urls[k].url)

\* C17: within one run the same URL, found by two sources or twice by
\* one, is a processed URL at most once and its parameters are counted
\* once.
C17_ResultsDeduplicated ==
    pipePc = "returned" =>
        \A i, j \in DOMAIN results.urls :
            results.urls[i].original_url = results.urls[j].original_url
                => i = j

\* a returned run with the same URL processed for two sources and its
\* parameter counted for each
C17_DuplicateAcrossSources ==
    /\ pipePc = "returned"
    /\ \E i, j \in DOMAIN results.urls :
          /\ i < j
          /\ results.urls[i].original_url = results.urls[j].original_url
          /\ results.urls[i].source # results.urls[j].source
          /\ \A name \in SeqToSet(results.urls[i].parameters) :
                results.parameters[name] >= 2
    /\ Cardinality({results.urls[k].original_url : k \in DOMAIN results.urls})
          < Len(results.urls)

\* C18: every result record's cleaned URL has as its query exactly the
\* kept parameters as name=placeholder pairs in original order, with no
\* original value left, for every placeholder including FUZZ; scheme, host
\* and path are those of the original URL.  Stated for the records of the
\* scan core.
C18_CleanedQueryIsPlaceholders ==
    scanPc = "done" =>
        \A i \in DOMAIN scan_result.urls :
            LET info == scan_result.urls[i]
            IN  /\ info.cleaned_url.query =
                      [k \in DOMAIN info.parameters |->
                          P(info.parameters[k], scan_request.placeholder)]
                /\ info.cleaned_url.scheme = info.url.scheme
                /\ info.cleaned_url.netloc = info.url.netloc
                /\ info.cleaned_url.path = info.url.path

\* a completed scan with the default placeholder whose record still holds
\* the original query, values included
C18_OriginalValuesRemain ==
    /\ scanPc = "done"
    /\ scan_request.placeholder = <<"FUZZ">>
    /\ \E i \in DOMAIN scan_result.urls :
          /\ scan_result.urls[i].cleaned_url.query = scan_result.urls[i].url.query
          /\ \E k \in DOMAIN scan_result.urls[i].url.query :
                scan_result.urls[i].url.query[k].value = <<"1">>

\* C18 for the command-line pipeline: the cleaned URL of every processed
\* URL has the kept names with the placeholder, and the original's host
\* and path.
C18_PipelineCleanedUrl ==
    pipePc = "returned" =>
        \A i \in DOMAIN results.urls :
            LET rec == results.urls[i]
            IN  /\ rec.cleaned_url.query =
                      [k \in DOMAIN rec.parameters |->
                          P(rec.parameters[k], args.placeholder)]
                /\ rec.cleaned_url.netloc = rec.original_url.netloc
                /\ rec.cleaned_url.path = rec.original_url.path

\* the lower-cased name is in the default boring set or matches one of
\* the wildcard patterns
DefaultBoring(name) ==
    LET lowered == LowerStr(name)
    IN  \/ lowered \in default_boring_params
        \/ \E pre \in BoringPrefixes :
              /\ Len(pre) <= Len(lowered)
              /\ SubSeq(lowered, 1, Len(pre)) = pre
        \/ \E suf \in BoringSuffixes :
              /\ Len(suf) <= Len(lowered)
              /\ SubSeq(lowered, Len(lowered) - Len(suf) + 1, Len(lowered)) = suf

\* C19: whatever the input list and the letter case of its names,
\* filter_parameters returns no name whose lower-cased form is in the
\* default boring set or matches a wildcard pattern, and (when the caller
\* added no names of their own) returns every other input name, in input
\* order.
C19_BoringNeverReturned ==
    testPc \in {"filtered", "cleaned", "reapplied"} =>
        /\ \A i \in DOMAIN test_filtered : ~DefaultBoring(test_filtered[i])
        /\ args.custom_filter = {} /\ ~args.boring_list.given
              => test_filtered =
                    SelectSeq(test_params, LAMBDA name : ~DefaultBoring(name))

\* a list with a boring name in capitals, a wildcard match in capitals and
\* a name to keep between them went through the default filter
C19_Witness ==
    /\ testPc = "filtered"
    /\ args = BaseArgs
    /\ test_params = << <<"Format">>, <<"Q">>, <<"UTM", "_", "x">> >>
    /\ test_filtered = << <<"Q">> >>

\* C20: with default filtering the URL
\* https://api.example.com/users?id=123&format=json&key=secret keeps id,
\* format and key, and its cleaned query is id=FUZZ&format=FUZZ&key=FUZZ.
C20_ScenarioBKeepsAll ==
    (testPc = "cleaned" /\ args = BaseArgs /\ test_placeholder = <<"FUZZ">>
        /\ test_url = U_users(Domain))
        => /\ test_filtered = << <<"id">>, <<"format">>, <<"key">> >>
           /\ test_cleaned.query = << P(<<"id">>, <<"FUZZ">>),
                                       P(<<"format">>, <<"FUZZ">>),
                                       P(<<"key">>, <<"FUZZ">>) >>

\* the URL went through the default filter and format was dropped
C20_FormatFiltered ==
    /\ testPc = "cleaned"
    /\ args = BaseArgs
    /\ test_placeholder = <<"FUZZ">>
    /\ test_url = U_users(Domain)
    /\ test_params = << <<"id">>, <<"format">>, <<"key">> >>
    /\ test_filtered = << <<"id">>, <<"key">> >>
    /\ test_cleaned.query = << P(<<"id">>, <<"FUZZ">>), P(<<"key">>, <<"FUZZ">>) >>
    /\ <<"format">> \in default_boring_params

\* C21: filter and clean is a fixpoint: for every URL and placeholder,
\* extract_parameters, filter_parameters and create_cleaned_url applied to
\* the cleaned URL, with the same placeholder, return a string identical
\* to the cleaned URL.
C21_CleanIsFixpoint ==
    testPc = "reapplied" => UrlStr(test_again) = UrlStr(test_cleaned)

\* the cleaned URL of a query whose one name holds an encoded "&" was
\* cleaned again into a query of two names
C21_ReparsedAsTwoNames ==
    /\ testPc = "reapplied"
    /\ test_url.query = << P(<<"a", "%26", "b">>, <<"v">>) >>
    /\ test_filtered = << <<"a", "&", "b">> >>
    /\ QueryStr(test_cleaned.query) = <<"a", "&", "b", "=">> \o test_placeholder
    /\ QueryStr(test_again.query) =
          <<"a", "=">> \o test_placeholder \o <<"&", "b", "=">> \o test_placeholder

\* the query with its names as parse_qs reads them
Decoded(query) ==
    [i \in DOMAIN query |-> P(unquote_plus(query[i].name), query[i].value)]

\* the netloc of the URL opens a bracket that it does not close
Malformed(url) == "[" \in SeqToSet(url.netloc) /\ "]" \notin SeqToSet(url.netloc)

\* C22: for every URL extract_parameters returns a list without duplicate
\* names, in the order of their first occurrence in the query string, and
\* an empty list, not an error, for a URL that cannot be parsed.
C22_ExtractUniqueInOrder ==
    testPc \in {"extracted", "filtered", "cleaned", "reapplied"} =>
        /\ \A i, j \in DOMAIN test_params :
              test_params[i] = test_params[j] => i = j
        /\ ~Malformed(test_url)
              => test_params = FirstOccurrences(Decoded(test_url.query))
        /\ Malformed(test_url) => test_params = <<>>

\* the names of a query that repeats its first name after another one
\* were extracted
C22_Witness ==
    /\ testPc = "extracted"
    /\ Len(test_url.query) = 3
    /\ test_url.query[1].name = test_url.query[3].name
    /\ test_url.query[2].name = <<"a", "%26", "b">>
    /\ test_params = << test_url.query[1].name, <<"a", "&", "b">> >>

\* the names the caller supplied, in lower case: the custom_filter names
\* and the lines of the boring-list file that are neither blank nor
\* comments
SuppliedLowered ==
    {LowerStr(name) : name \in args.custom_filter}
        \cup (IF args.boring_list.given /\ args.boring_list.status = "ok"
              THEN {LowerStr(line) :
                       line \in {l \in SeqToSet(args.boring_list.lines) :
                                     l # <<>> /\ Head(l) # "#"}}
              ELSE {})

\* C23: a parameter equal, up to letter case, to a name supplied through
\* custom_filter or the boring-list file is never kept by
\* filter_parameters.
C23_SuppliedNamesCaseInsensitive ==
    testPc \in {"filtered", "cleaned", "reapplied"} =>
        \A i \in DOMAIN test_filtered :
            LowerStr(test_filtered[i]) \notin SuppliedLowered

\* the caller supplied Q and the parameters Q and q were both kept
C23_CustomCapitalKept ==
    /\ testPc = "filtered"
    /\ args.custom_filter = { <<"Q">> }
    /\ test_params = << <<"Q">>, <<"q">> >>
    /\ test_filtered = << <<"Q">>, <<"q">> >>

\* a name of the boring-list file written in capitals removed the
\* parameter in both cases
C23_FileNameLowered ==
    /\ testPc = "filtered"
    /\ args.boring_list.given
    /\ <<"Q">> \in SeqToSet(args.boring_list.lines)
    /\ test_params = << <<"Q">>, <<"q">>, <<"id">> >>
    /\ test_filtered = << <<"id">> >>

\* C24: for every parameter name the boring score and the interesting
\* score of the confidence-scoring filter lie between 0 and 1 (0 and 100
\* hundredths), the boosts for long names and for names with "_" or "-"
\* included.
C24_ScoresInUnitRange ==
    \A param \in DOMAIN smart_scores :
        /\ smart_scores[param].boring \in 0 .. 100
        /\ smart_scores[param].interesting \in 0 .. 100

\* the filter returned after it gave a long name with "_" that matches an
\* interesting pattern a score of 1.10, and kept it
C24_ScoreAboveOne ==
    /\ smartPc = "returned"
    /\ <<"search", "_", "query">> \in smart_filtered
    /\ smart_scores[<<"search", "_", "query">>].interesting = 110
    /\ smart_scores[<<"search", "_", "query">>].boring = 0
    /\ filtering_stats.confidence_scores[<<"search", "_", "query">>] = 110

\* the records the sitemap source contributed to the run
SitemapRecords ==
    {rec \in SeqToSet(total_urls) \cup SeqToSet(domain_urls) :
        rec.source = "sitemap"}

\* C25: every URL the sitemap source returns has a host that is the target
\* domain or a subdomain of it, and a non-empty query string; a URL on
\* another host is not returned even when the domain name occurs elsewhere
\* in it.
C25_SitemapUrlsOnTargetHost ==
    \A rec \in SitemapRecords :
        /\ rec.url.query # <<>>
        /\ \/ rec.url.netloc = rec.domain
           \/ EndsWith(rec.url.netloc, <<".">> \o rec.domain)

\* a returned run whose sitemap source delivered a URL of another host
\* that names the target domain in its query only
C25_ForeignHostReturned ==
    /\ pipePc = "returned"
    /\ \E rec \in SitemapRecords :
          /\ rec.url.netloc = <<"cdn", ".", "net">>
          /\ rec.domain = Domain
          /\ \E k \in DOMAIN rec.url.query : rec.url.query[k].value = Domain
          /\ \E i \in DOMAIN results.urls : results.urls[i].original_url = rec.url

\* the records the crawler contributed to the run
CrawlRecords ==
    {rec \in SeqToSet(total_urls) \cup SeqToSet(domain_urls) :
        rec.source = "crawl"}

\* the host is the domain or a subdomain of it
HostOf(netloc, domain) ==
    netloc = domain \/ EndsWith(netloc, <<".">> \o domain)

\* C26: when one CrawlerSource instance crawls several domains in
\* sequence, every URL fetch_urls(d) returns has the host d or a subdomain
\* of d: a URL discovered for an earlier domain is not in, and not tagged
\* with, a later domain's result.
C26_CrawlResultOfOwnDomain ==
    \A rec \in CrawlRecords : HostOf(rec.url.netloc, rec.domain)

\* a returned run over two domains in which a URL of the first crawl was
\* returned again by the second crawl and tagged with the second domain
C26_EarlierUrlTaggedLater ==
    /\ pipePc = "returned"
    /\ Len(domains) = 2
    /\ \E i, j \in DOMAIN total_urls :
          /\ i < j
          /\ total_urls[i].source = "crawl"
          /\ total_urls[j].source = "crawl"
          /\ total_urls[i].url = total_urls[j].url
          /\ total_urls[i].domain = domains[1]
          /\ total_urls[j].domain = domains[2]
          /\ HostOf(total_urls[i].url.netloc, domains[1])
          /\ ~HostOf(total_urls[j].url.netloc, domains[2])

\* the calls of the crawler that returned, in a run with crawl_pages >= 1
CrawlCalls ==
    {k \in DOMAIN callLog :
        callLog[k].source = "crawl" /\ ~callLog[k].raised}

\* C27: the page budget is per crawl: with crawl_pages >= 1 every
\* domain's crawl starts with an empty visited set and fetches at least its
\* root seed URL, whatever the crawls of earlier domains visited.
C27_BudgetPerCrawl ==
    ~CrawlingDisabled =>
        /\ pipePc = "crawling" /\ mainpc = "init" => visited_urls = {}
        /\ \A k \in CrawlCalls : callLog[k].made

\* a returned run over two domains whose second crawl issued no request,
\* the first having used the page budget
C27_SecondCrawlFetchesNothing ==
    /\ pipePc = "returned"
    /\ ~CrawlingDisabled
    /\ Len(domains) = 2
    /\ Cardinality(visited_urls) = max_pages
    /\ \A u \in visited_urls : u.netloc = domains[1]
    /\ \E k, l \in CrawlCalls :
          /\ k < l
          /\ callLog[k].domain = domains[1] /\ callLog[k].made
          /\ callLog[l].domain = domains[2] /\ ~callLog[l].made

TerminalStatus == {"completed", "failed"}

\* a ScanResult exists: scan_domains was called
ScanStarted == scanPc # "idle"

\* C28: every scan that scan_domains started reaches the status completed
\* or failed; the status changes only from running to one of the two and
\* not again afterwards; completed_at is set exactly when the status is
\* terminal.
C28_ScanReachesTerminalStatus ==
    /\ (scanPc = "scheduled")
          ~> (ScanStarted /\ scan_result.status \in TerminalStatus)
    /\ [][(ScanStarted /\ scan_result'.status # scan_result.status)
               => /\ scan_result.status = "running"
                  /\ scan_result'.status \in TerminalStatus]_vars
    /\ [](ScanStarted
             => (scan_result.completed_at # "None"
                    <=> scan_result.status \in TerminalStatus))

\* a scan of two domains completed, the archive having failed for one of
\* them and answered for the other
C28_Witness ==
    /\ scanPc = "done"
    /\ scan_result.status = "completed"
    /\ scan_result.completed_at = "now"
    /\ Len(scan_result.domain_stats) = 2
    /\ scan_result.domain_stats[1].total_urls_found = 0
    /\ scan_result.domain_stats[2].total_urls_found > 0

\* C29: fetch_urls of one SitemapSource instance is repeatable: called
\* twice for the same domain against unchanged server responses it returns
\* the same set of URLs both times.
C29_SitemapFetchRepeatable ==
    \A k, l \in DOMAIN site_calls :
        SeqToSet(site_calls[k]) = SeqToSet(site_calls[l])

\* with every request answered, the first call returned URLs and the
\* second call, its sitemap locations all remembered, returned none
C29_SecondCallEmpty ==
    /\ Len(site_calls) = 2
    /\ \A r \in SitemapRequests : site_responses[r] = "ok"
    /\ U_search(Domain) \in SeqToSet(site_calls[1])
    /\ site_calls[2] = <<>>
    /\ SeqToSet(sitemap_urls(Domain)) \subseteq discovered_sitemaps

RECURSIVE SumTotalUrls(_, _)
SumTotalUrls(res, names) ==
    IF names = {} THEN 0
    ELSE LET n == CHOOSE x \in names : TRUE
         IN  SourceStat(res, n, "total_urls") + SumTotalUrls(res, names \ {n})

\* the fetched URLs in which extract_parameters finds no parameter
WithoutParameters ==
    SelectSeq(total_urls, LAMBDA d : extract_parameters(d.url) = <<>>)

\* the fetched URLs whose parameters are all rejected by the filter
AllBoring ==
    SelectSeq(total_urls, LAMBDA d : /\ extract_parameters(d.url) # <<>>
                                     /\ ~args.no_filter
                                     /\ filter_parameters(extract_parameters(d.url)) = <<>>)

\* C30: at the end of a run total_urls_fetched is the sum of total_urls
\* over the sources, and every fetched URL is counted exactly once: as a
\* processed URL, as filtered_out (all its parameters boring), or as a URL
\* without parameters; so total_urls_with_params + filtered_out never
\* exceeds total_urls_fetched.
C30_StatsConserveUrls ==
    pipePc = "returned" =>
        LET fetched == Get(results.stats, "total_urls_fetched")
            with_params == Get(results.stats, "total_urls_with_params")
            filtered_out == Get(results.stats, "filtered_out")
        IN  /\ fetched = SumTotalUrls(results, DOMAIN results.source_stats)
            /\ fetched = Len(total_urls)
            /\ with_params = Len(results.urls)
            /\ filtered_out = Len(AllBoring)
            /\ with_params + filtered_out + Len(WithoutParameters) = fetched
            /\ with_params + filtered_out <= fetched

\* a finished run of two sources in which the three kinds of URL all occur
C30_Witness ==
    /\ pipePc = "returned"
    /\ Len(results.urls) > 0
    /\ Get(results.stats, "filtered_out") > 0
    /\ Len(WithoutParameters) > 0
    /\ Cardinality({n \in DOMAIN results.source_stats :
                        SourceStat(results, n, "total_urls") > 0}) >= 2

====
